---- MODULE Spec2Model ----
(***************************************************************************)
(* A model of the command interpreter of chunkwm's tiling plugin           *)
(* (src/plugins/tiling/controller.cpp): the per-space layout tree (BSP or  *)
(* monocle list), the window geometry the commands apply, the virtual      *)
(* space registry's acquire count and the configuration variables the      *)
(* commands read and write.                                                *)
(*                                                                         *)
(* Nodes live in an arena; a pointer          is a node id and NULL is    *)
(* NoNode.  A command is one action: it maps the state before the command  *)
(* to the state after it, and records the calls it made in `log` and the   *)
(* exit path it took in `last`.                                            *)
(*                                                                         *)
(* Single precision ratios are modelled exactly: a ratio is an integer     *)
(* number of units of 2^-27 and every arithmetic result is rounded to 24   *)
(* significant bits, ties to even (F32Round).  Pixel coordinates are       *)
(* integers; a product ratio * extent is rounded down to a whole pixel.    *)
(***************************************************************************)
EXTENDS Integers, Naturals, Sequences, FiniteSets, TLC

\* ------------------------------------------------------------------ bounds
MaxWindows == 3
MaxSteps == 2
\* The length of the runs of offset commands.
MaxOffsetSteps == 4
\* The length of the runs of zoom toggles.
MaxZoomSteps == 4

\* --------------------------------------------------------------- constants
NoNode == 0
NoWindow == 0
Windows == 1..MaxWindows

Split_Vertical == "Vertical"
Split_Horizontal == "Horizontal"
Split_None == "NoSplit"

Virtual_Space_Bsp == "Bsp"
Virtual_Space_Monocle == "Monocle"
Virtual_Space_Float == "Float"
Modes == {Virtual_Space_Bsp, Virtual_Space_Monocle, Virtual_Space_Float}

kCGSSpaceUser == "User"
kCGSSpaceFullscreen == "Fullscreen"
kCGSSpaceSystem == "System"

Window_Focus_Cycle_All == "all"
Window_Focus_Cycle_Monitor == "monitor"
Window_Focus_Cycle_None == "none"

\* ------------------------------------------------- single precision floats
\* One unit is 2^-27: every float in [2^-4, 2) is a whole number of units.
Unit == 2^27

F32Quantum(x) ==
    IF x < 2^24 THEN 1
    ELSE IF x < 2^25 THEN 2
    ELSE IF x < 2^26 THEN 4
    ELSE IF x < 2^27 THEN 8
    ELSE IF x < 2^28 THEN 16
    ELSE 32

\* Round a non-negative number of units to 24 significant bits, ties to even.
RoundToQuantum(x, q) ==
    LET lo == (x \div q) * q
    IN  IF 2 * (x - lo) < q THEN lo
        ELSE IF 2 * (x - lo) > q THEN lo + q
        ELSE IF (lo \div q) % 2 = 0 THEN lo ELSE lo + q

F32RoundPos(x) == RoundToQuantum(x, F32Quantum(x))

F32Round(x) == IF x < 0 THEN 0 - F32RoundPos(0 - x) ELSE F32RoundPos(x)

\* A faulty sum: the exact one, not rounded to single precision.
F32Add_Exact(a, b) == a + b

\* a + b and 1 - a in single precision.
F32Add(a, b) == F32Round(a + b)
F32OneMinus(a) == F32Round(Unit - a)

\* The float nearest to p / q, for small naturals p <= q (q <= 15).
DivToQuantum(X, q, qu) ==
    LET lo == (X \div (q * qu)) * qu
    IN  IF 2 * (X - lo * q) < q * qu THEN lo
        ELSE IF 2 * (X - lo * q) > q * qu THEN lo + qu
        ELSE IF (lo \div qu) % 2 = 0 THEN lo ELSE lo + qu

F32Div(p, q) == DivToQuantum(p * Unit, q, F32Quantum((p * Unit) \div q))

\* The float literals k/10 (0.1f .. 0.9f).
F32Tenths(k) == F32Div(k, 10)

\* Ratio >= 0.1 and Ratio <= 0.9, the float compared with the double literal:
\* 0.1 and 0.9 lie strictly between two whole numbers of units.
RatioInRange(x) == x >= ((Unit + 9) \div 10) /\ x <= ((9 * Unit) \div 10)

\* floor(w * r / 2^27) for a pixel extent w < 2^16, without leaving 32 bits.
MulRatio(w, r) ==
    LET hi == r \div (2^12)
        lo == r % (2^12)
    IN  (w * hi + ((w * lo) \div (2^12))) \div (2^15)

\* ------------------------------------------------------------------ regions
NoRegion == [X |-> 0, Y |-> 0, Width |-> 0, Height |-> 0]

NoPreselect ==
    [Direction |-> "none", SpawnLeft |-> FALSE, Split |-> Split_None,
     Ratio |-> 0, Region |-> NoRegion]

\* A free arena slot.
FreeNode ==
    [used |-> FALSE, WindowId |-> NoWindow, Parent |-> NoNode, Left |-> NoNode,
     Right |-> NoNode, Split |-> Split_None, Ratio |-> 0, Region |-> NoRegion,
     Zoom |-> NoNode, Preselect |-> NoPreselect]

\* ----------------------------------------------------- displays and spaces
\* Two displays in the arrangement (indices 0 and 1); the second one is
\* connected when env.displays = 2.  Spaces 1 and 2 are user spaces of
\* display 0, space 3 is a fullscreen space and space 4 a system space of
\* display 0, space 5 is the user space of display 1.  A space's desktop id
\* is its number.
Spaces == 1..5
SpaceMonitor(sp) == IF sp = 5 THEN 1 ELSE 0
SpaceType(sp) ==
    IF sp = 3 THEN kCGSSpaceFullscreen
    ELSE IF sp = 4 THEN kCGSSpaceSystem
    ELSE kCGSSpaceUser

DisplayBounds(m) ==
    IF m = 0 THEN [X |-> 0, Y |-> 0, Width |-> 640, Height |-> 480]
    ELSE [X |-> 640, Y |-> 0, Width |-> 320, Height |-> 240]

\* ------------------------------------------------------------- layout tree
\* n is the arena: a function from node ids to node records.
IsLeafNode(n, id) == n[id].Left = NoNode /\ n[id].Right = NoNode

RECURSIVE GetFirstLeafNode(_, _)
GetFirstLeafNode(n, id) ==
    IF id = NoNode THEN NoNode
    ELSE IF n[id].Left = NoNode THEN id
    ELSE GetFirstLeafNode(n, n[id].Left)

RECURSIVE GetLastLeafNode(_, _)
GetLastLeafNode(n, id) ==
    IF id = NoNode THEN NoNode
    ELSE IF n[id].Right = NoNode THEN id
    ELSE GetLastLeafNode(n, n[id].Right)

IsLeftChild(n, id) == n[id].Parent # NoNode /\ n[n[id].Parent].Left = id
IsRightChild(n, id) == n[id].Parent # NoNode /\ n[n[id].Parent].Right = id

RECURSIVE GetNextLeafNode(_, _)
GetNextLeafNode(n, id) ==
    IF n[id].Parent = NoNode THEN NoNode
    ELSE IF IsRightChild(n, id) THEN GetNextLeafNode(n, n[id].Parent)
    ELSE GetFirstLeafNode(n, n[n[id].Parent].Right)

RECURSIVE GetPrevLeafNode(_, _)
GetPrevLeafNode(n, id) ==
    IF n[id].Parent = NoNode THEN NoNode
    ELSE IF IsLeftChild(n, id) THEN GetPrevLeafNode(n, n[id].Parent)
    ELSE GetLastLeafNode(n, n[n[id].Parent].Left)

\* The leaves of the BSP subtree under id, left to right.
RECURSIVE LeafSeq(_, _)
LeafSeq(n, id) ==
    IF id = NoNode THEN << >>
    ELSE IF IsLeafNode(n, id) THEN << id >>
    ELSE LeafSeq(n, n[id].Left) \o LeafSeq(n, n[id].Right)

\* The nodes of the monocle list from id on, following Right.
RECURSIVE ListSeq(_, _)
ListSeq(n, id) ==
    IF id = NoNode THEN << >> ELSE << id >> \o ListSeq(n, n[id].Right)

\* Every node of the BSP subtree under id, parents first.
RECURSIVE SubtreeSeq(_, _)
SubtreeSeq(n, id) ==
    IF id = NoNode THEN << >>
    ELSE << id >> \o SubtreeSeq(n, n[id].Left) \o SubtreeSeq(n, n[id].Right)

SeqToSet(q) == {q[i] : i \in 1..Len(q)}

\* The nodes that hold a window, in traversal order.
WindowNodes(n, root, mode) ==
    IF mode = Virtual_Space_Monocle THEN ListSeq(n, root) ELSE LeafSeq(n, root)

\* Every node of a workspace's tree.
TreeNodes(n, root, mode) ==
    IF mode = Virtual_Space_Monocle THEN SeqToSet(ListSeq(n, root))
    ELSE SeqToSet(SubtreeSeq(n, root))

FirstOf(q, hit) == IF hit = {} THEN NoNode ELSE q[CHOOSE i \in hit : \A j \in hit : i <= j]

NodeWithIdIn(n, q, wid) == FirstOf(q, {i \in 1..Len(q) : n[q[i]].WindowId = wid})

GetNodeWithId(n, root, wid, mode) == NodeWithIdIn(n, WindowNodes(n, root, mode), wid)

RECURSIVE Ancestors(_, _)
Ancestors(n, id) ==
    IF id = NoNode \/ n[id].Parent = NoNode THEN << >>
    ELSE << n[id].Parent >> \o Ancestors(n, n[id].Parent)

\* The nearest proper ancestor of a that is a proper ancestor of b.
FirstCommon(pa, pb) == FirstOf(pa, {i \in 1..Len(pa) : pa[i] \in pb})

GetLowestCommonAncestor(n, a, b) ==
    IF a = NoNode \/ b = NoNode THEN NoNode
    ELSE FirstCommon(Ancestors(n, a), SeqToSet(Ancestors(n, b)))

IsNodeInTree(n, tree, id) == tree # NoNode /\ id \in SeqToSet(SubtreeSeq(n, tree))

RegionArea(r) == r.Width * r.Height

\* The leaf of greatest area; the first one in traversal order on a tie.
BiggestIn(n, q) ==
    FirstOf(q, {i \in 1..Len(q) :
                   \A j \in 1..Len(q) :
                       RegionArea(n[q[j]].Region) <= RegionArea(n[q[i]].Region)})

GetBiggestLeafNode(n, root) == BiggestIn(n, LeafSeq(n, root))

SwapNodeIds(n, a, b) ==
    [n EXCEPT ![a].WindowId = n[b].WindowId, ![b].WindowId = n[a].WindowId]

\* ------------------------------------------------------------ region engine
\* vs is one workspace record; a null Offset counts as zero.
ActiveOffset(vs) ==
    IF vs.OffsetOn THEN vs.StoredOffset
    ELSE [Top |-> 0, Bottom |-> 0, Left |-> 0, Right |-> 0, Gap |-> 0]

\* Region_Full: the display's bounds less the active padding.
PaddedRegion(d, o) ==
    [X |-> d.X + o.Left, Y |-> d.Y + o.Top,
     Width |-> d.Width - o.Left - o.Right,
     Height |-> d.Height - o.Top - o.Bottom]

FullRegion(sp, vs) == PaddedRegion(DisplayBounds(SpaceMonitor(sp)), ActiveOffset(vs))

LeftRegion(r, split, ratio, gap) ==
    IF split = Split_Vertical
    THEN [r EXCEPT !.Width = MulRatio(r.Width, ratio) - (gap \div 2)]
    ELSE [r EXCEPT !.Height = MulRatio(r.Height, ratio) - (gap \div 2)]

RightOf(r, split, l, gap) ==
    IF split = Split_Vertical
    THEN [r EXCEPT !.X = r.X + l.Width + gap,
                   !.Width = r.Width - l.Width - gap]
    ELSE [r EXCEPT !.Y = r.Y + l.Height + gap,
                   !.Height = r.Height - l.Height - gap]

RightRegion(r, split, ratio, gap) == RightOf(r, split, LeftRegion(r, split, ratio, gap), gap)

\* Recompute the regions below id from id's own region.
RECURSIVE CreateNodeRegionRecursive(_, _, _)
CreateNodeRegionRecursive(n, id, gap) ==
    IF id = NoNode \/ IsLeafNode(n, id) \/ n[id].Left = NoNode \/ n[id].Right = NoNode
    THEN n
    ELSE LET l == n[id].Left
             r == n[id].Right
             n1 == [n EXCEPT
                      ![l].Region = LeftRegion(n[id].Region, n[id].Split, n[id].Ratio, gap),
                      ![r].Region = RightRegion(n[id].Region, n[id].Split, n[id].Ratio, gap)]
             n2 == CreateNodeRegionRecursive(n1, l, gap)
         IN  CreateNodeRegionRecursive(n2, r, gap)

\* In monocle every node of the list gets the full region.
MonocleRegions(n, root, full) ==
    LET ids == SeqToSet(ListSeq(n, root))
    IN  [i \in DOMAIN n |-> IF i \in ids THEN [n[i] EXCEPT !.Region = full] ELSE n[i]]

\* ----------------------------------------------------------- program state
\* A state s is a record of everything a command reads and writes:
\*   node     the arena, node id -> node record
\*   vs       the registry, Spaces -> [Mode, Tree, OffsetOn, StoredOffset, Acquired]
\*   win      Windows -> [Space, Float, Sticky, Fullscreen, Rect]
\*   focused  the focused window, or NoWindow
\*   cvar     the configuration variables
\*   env      [displays, activeMon, monActive]: the connected displays, the
\*            display that has the focus and each display's active space
\*   file     the layout a Serialize command last wrote, or NoFile
\*   log      the calls made by the command that ran last, in order
\*   last     the command that ran last and the exit path it took
\*   aborted  an assertion tripped and the process is gone
Ev(s, op, a, r) == [s EXCEPT !.log = Append(@, [op |-> op, a |-> a, r |-> r])]

Exit(s, cmd, arg, exit, src, tgt, anc) ==
    [s EXCEPT !.last = [cmd |-> cmd, arg |-> arg, exit |-> exit,
                        src |-> src, tgt |-> tgt, anc |-> anc]]

\* ASSERT(Condition) with a false Condition: the process terminates.
AssertFailed(s) == Ev([s EXCEPT !.aborted = TRUE], "assert", 0, NoRegion)

ActiveSpaceOf(s) == s.env.monActive[s.env.activeMon]

\* AXLibActiveSpace(&Space): a space descriptor the caller must destroy.
AXLibActiveSpace(s) == Ev(s, "active_space", ActiveSpaceOf(s), NoRegion)
AXLibActiveSpaceOfMonitor(s, m) == Ev(s, "active_space", s.env.monActive[m], NoRegion)
AXLibDestroySpace(s, sp) == Ev(s, "destroy_space", sp, NoRegion)

AcquireVirtualSpace(s, sp) ==
    Ev([s EXCEPT !.vs[sp].Acquired = @ + 1], "acquire", sp, NoRegion)
ReleaseVirtualSpace(s, sp) ==
    Ev([s EXCEPT !.vs[sp].Acquired = @ - 1], "release", sp, NoRegion)

\* A faulty exit: the space descriptor is destroyed, the workspace is not
\* released.
VspaceRelease_Leaky(s, sp) == AXLibDestroySpace(s, sp)

\* The two labels every command ends with.
VspaceRelease(s, sp) == AXLibDestroySpace(ReleaseVirtualSpace(s, sp), sp)
SpaceFree(s, sp) == AXLibDestroySpace(s, sp)

GetWindowByID(s, wid) == IF wid \in DOMAIN s.win THEN wid ELSE NoWindow
GetFocusedWindow(s) == GetWindowByID(s, s.focused)

\* Windows of a space in the order the system lists them (ord: the system's
\* order of all windows, an input of the command).
VisibleWindows(s, sp, includeFloating, ord) ==
    SelectSeq(ord, LAMBDA w : s.win[w].Space = sp /\ (includeFloating \/ ~s.win[w].Float))

\* Giving a window the focus also makes its display the focused one.
AXLibSetFocusedWindow(s, w) ==
    LET m == SpaceMonitor(s.win[w].Space)
        s1 == [s EXCEPT !.focused = w,
                        !.env.activeMon =
                            IF s.env.monActive[m] = s.win[w].Space THEN m ELSE @]
    IN  Ev(s1, "focus", w, NoRegion)

SetWindowRect(s, w, r) ==
    IF w \in DOMAIN s.win THEN Ev([s EXCEPT !.win[w].Rect = r], "resize", w, r) ELSE s

ResizeWindowToRegionSize(s, id) ==
    SetWindowRect(s, s.node[id].WindowId, s.node[id].Region)
ResizeWindowToExternalRegionSize(s, id, r) ==
    SetWindowRect(s, s.node[id].WindowId, r)

\* A faulty update: only the first write of a command lands.
UpdateCVarInsertionPoint_First(s, wid) ==
    IF \E i \in DOMAIN s.log : s.log[i].op = "cvar_insertion_point"
    THEN s
    ELSE Ev([s EXCEPT !.cvar.bsp_insertion_point = wid], "cvar_insertion_point", wid, NoRegion)

UpdateCVarInsertionPoint(s, wid) ==
    Ev([s EXCEPT !.cvar.bsp_insertion_point = wid], "cvar_insertion_point", wid, NoRegion)

\* The rectangle ApplyNodeRegion gives the window of leaf id: its own
\* region, or with includeZoom the root's (fullscreen zoom, which takes
\* precedence) or its parent's (parent zoom).
ZoomedRegion(s, sp, id, includeZoom) ==
    LET n == s.node
        root == s.vs[sp].Tree
        par == n[id].Parent
    IN  IF includeZoom /\ root # NoNode /\ n[root].Zoom = id THEN n[root].Region
        ELSE IF includeZoom /\ par # NoNode /\ n[par].Zoom = id THEN n[par].Region
        ELSE n[id].Region

RECURSIVE ApplySeq(_, _, _, _, _)
ApplySeq(s, sp, q, i, includeZoom) ==
    IF i > Len(q) THEN s
    ELSE ApplySeq(SetWindowRect(s, s.node[q[i]].WindowId,
                                ZoomedRegion(s, sp, q[i], includeZoom)),
                  sp, q, i + 1, includeZoom)

\* ApplyNodeRegion(Node, Mode, IncludeZoom): resize the window of every leaf
\* under Node.
ApplyNodeRegion(s, sp, id, includeZoom) ==
    ApplySeq(s, sp, WindowNodes(s.node, id, s.vs[sp].Mode), 1, includeZoom)

Gap(s, sp) == ActiveOffset(s.vs[sp]).Gap

\* CreateNodeRegion(Tree, Region_Full, ..) then CreateNodeRegionRecursive.
RecomputeAll(s, sp) ==
    IF s.vs[sp].Tree = NoNode THEN s
    ELSE IF s.vs[sp].Mode = Virtual_Space_Monocle
    THEN [s EXCEPT !.node = MonocleRegions(s.node, s.vs[sp].Tree, FullRegion(sp, s.vs[sp]))]
    ELSE [s EXCEPT !.node =
            CreateNodeRegionRecursive(
                [s.node EXCEPT ![s.vs[sp].Tree].Region = FullRegion(sp, s.vs[sp])],
                s.vs[sp].Tree, Gap(s, sp))]

\* CreateNodeRegionRecursive / ResizeNodeRegion from a node down.
RecomputeBelow(s, sp, id) ==
    [s EXCEPT !.node = CreateNodeRegionRecursive(s.node, id, Gap(s, sp))]

\* --------------------------------------------------------- geometric search
Directions == {"north", "east", "south", "west"}

RECURSIVE ISqrtIter(_, _, _)
ISqrtIter(x, lo, hi) ==
    IF lo >= hi THEN lo
    ELSE LET mid == (lo + hi + 1) \div 2
         IN  IF mid * mid <= x THEN ISqrtIter(x, mid, hi)
             ELSE ISqrtIter(x, lo, mid - 1)
ISqrt(x) == ISqrtIter(x, 0, 46340)

Max2(a, b) == IF a > b THEN a ELSE b
Min2(a, b) == IF a < b THEN a ELSE b

\* A faulty test: the overlap on the other axis is not asked for.
WindowIsInDirection_Axis(dir, a, b) ==
    IF dir \in {"north", "south"} THEN a.Y # b.Y
    ELSE IF dir \in {"east", "west"} THEN a.X # b.X
    ELSE FALSE

WindowIsInDirection(dir, a, b) ==
    IF dir \in {"north", "south"}
    THEN a.Y # b.Y /\ Max2(a.X, b.X) < Min2(b.X + b.Width, a.X + a.Width)
    ELSE IF dir \in {"east", "west"}
    THEN a.X # b.X /\ Max2(a.Y, b.Y) < Min2(b.Y + b.Height, a.Y + a.Height)
    ELSE FALSE

\* WrapMonitorEdge: the second centre moved by one display extent (the
\* coordinates are doubled, so that a centre X + Width / 2 is whole).
WrapX2(sp, dir, x1, x2) ==
    LET w == 2 * DisplayBounds(SpaceMonitor(sp)).Width
    IN  IF dir = "east" /\ x1 > x2 THEN x2 + w
        ELSE IF dir = "west" /\ x1 < x2 THEN x2 - w
        ELSE x2
WrapY2(sp, dir, y1, y2) ==
    LET h == 2 * DisplayBounds(SpaceMonitor(sp)).Height
    IN  IF dir = "north" /\ y1 < y2 THEN y2 - h
        ELSE IF dir = "south" /\ y1 > y2 THEN y2 + h
        ELSE y2

Infinite == 2 * (2^30 - 1) + 1

\* GetWindowDistance: Distance / cos(DeltaA / 2) where DeltaA is the angle
\* between the direction's axis and the line between the centres; its
\* square is 2 d^2 * d / (d + c) with c the extent along the axis.  The
\* result is that square with d to one decimal and d / (d + c) to 8 bits;
\* Infinite stands for 0xFFFFFFFF.
DistanceAlong(dx, dy, dir) ==
    LET c == IF dir = "north" THEN 0 - dy
             ELSE IF dir = "south" THEN dy
             ELSE IF dir = "east" THEN dx
             ELSE 0 - dx
        d10 == ISqrt(100 * (dx * dx + dy * dy))
    IN  IF c <= 0 THEN Infinite
        ELSE (dx * dx + dy * dy) * ((256 * d10) \div (d10 + 10 * c))

GetWindowDistance(sp, a, b, dir, wrap) ==
    DistanceAlong(
        (IF wrap THEN WrapX2(sp, dir, 2 * a.X + a.Width, 2 * b.X + b.Width)
         ELSE 2 * b.X + b.Width) - (2 * a.X + a.Width),
        (IF wrap THEN WrapY2(sp, dir, 2 * a.Y + a.Height, 2 * b.Y + b.Height)
         ELSE 2 * b.Y + b.Height) - (2 * a.Y + a.Height),
        dir)

\* FindClosestWindow: the visible window of least distance among those in the
\* direction, the first such window of the list on a tie; NoWindow when
\* there is none.
FirstLeast(d) ==
    LET ok == {i \in DOMAIN d : d[i] < Infinite}
    IN  IF ok = {} THEN 0
        ELSE CHOOSE i \in ok : \A j \in ok : d[i] < d[j] \/ (d[i] = d[j] /\ i <= j)

\* The distance from the window of node a to the window of node b, Infinite
\* when b is no candidate.
CandidateDistance(n, sp, a, b, dir, wrap) ==
    IF a = NoNode \/ b = NoNode \/ a = b THEN Infinite
    ELSE IF ~WindowIsInDirection(dir, n[a].Region, n[b].Region) THEN Infinite
    ELSE GetWindowDistance(sp, n[a].Region, n[b].Region, dir, wrap)

ClosestIn(ws, d) == IF FirstLeast(d) = 0 THEN NoWindow ELSE ws[FirstLeast(d)]

FindClosestWindow(s, sp, match, dir, wrap, ord) ==
    LET ws == VisibleWindows(s, sp, FALSE, ord)
        NodeOf(w) == GetNodeWithId(s.node, s.vs[sp].Tree, w, s.vs[sp].Mode)
    IN  ClosestIn(ws, [i \in 1..Len(ws) |->
                         IF ws[i] = match THEN Infinite
                         ELSE CandidateDistance(s.node, sp, NodeOf(match), NodeOf(ws[i]),
                                                dir, wrap)])

\* FindWindowUndirected: prev, next and biggest over the tree; NoWindow when
\* the token is another one or there is no such leaf.
FindWindowUndirected(s, sp, windowNode, dir, wrapMonitor) ==
    LET n == s.node
        root == s.vs[sp].Tree
        prev == GetPrevLeafNode(n, windowNode)
        next == GetNextLeafNode(n, windowNode)
        big == GetBiggestLeafNode(n, root)
    IN  IF dir = "prev"
        THEN IF prev # NoNode THEN n[prev].WindowId
             ELSE IF wrapMonitor THEN n[GetLastLeafNode(n, root)].WindowId
             ELSE NoWindow
        ELSE IF dir = "next"
        THEN IF next # NoNode THEN n[next].WindowId
             ELSE IF wrapMonitor THEN n[GetFirstLeafNode(n, root)].WindowId
             ELSE NoWindow
        ELSE IF dir = "biggest"
        THEN IF big # NoNode THEN n[big].WindowId ELSE NoWindow
        ELSE NoWindow

\* The search Swap, Warp and AdjustRatio share: undirected first, then
\* directional without wrap.
FindTarget(s, sp, window, windowNode, dir, ord) ==
    LET u == FindWindowUndirected(s, sp, windowNode, dir, FALSE)
    IN  IF u # NoWindow THEN u
        ELSE FindClosestWindow(s, sp, window, dir, FALSE, ord)

\* ------------------------------------------------------- tiling and untiling
\* The arena slot a new node gets: the free slot of least id.
AllocNode(n) == CHOOSE i \in DOMAIN n : ~n[i].used /\ \A j \in DOMAIN n : ~n[j].used => i <= j

CreateLeafNode(parent, wid, ratio) ==
    [FreeNode EXCEPT !.used = TRUE, !.WindowId = wid, !.Parent = parent, !.Ratio = ratio]

Depth(n, id) == Len(Ancestors(n, id))

\* The leaf of least depth, the first one in traversal order on a tie.
MinDepthIn(n, q) ==
    FirstOf(q, {i \in 1..Len(q) : \A j \in 1..Len(q) : Depth(n, q[i]) <= Depth(n, q[j])})

GetFirstMinDepthLeafNode(n, root) == MinDepthIn(n, LeafSeq(n, root))

\* BSP: the leaf at the insertion point (or the first leaf of least depth)
\* becomes an internal node over its old window and the new one; split is
\* the orientation chosen for it when the leaf carries no pre-selection.
\* The leaf at becomes an internal node over the new leaves l and r; its
\* pre-selection, when it has one, says which side the new window takes.
CreateLeafNodePair(n, at, l, r, w, split, ratio) ==
    LET pre == n[at].Preselect
        hasPre == pre.Direction # "none"
    IN  [n EXCEPT ![l] = CreateLeafNode(at,
                    IF hasPre /\ pre.SpawnLeft THEN w ELSE n[at].WindowId, ratio),
                  ![r] = CreateLeafNode(at,
                    IF hasPre /\ pre.SpawnLeft THEN n[at].WindowId ELSE w, ratio),
                  ![at].WindowId = NoWindow,
                  ![at].Left = l,
                  ![at].Right = r,
                  ![at].Split = IF hasPre THEN pre.Split ELSE split,
                  ![at].Ratio = IF hasPre THEN pre.Ratio ELSE ratio,
                  ![at].Preselect = NoPreselect]

\* The free slot after l.
AllocNext(n, l) == AllocNode([n EXCEPT ![l].used = TRUE])

SplitLeaf(s, sp, w, split, at, l) ==
    ApplyNodeRegion(
        RecomputeBelow(
            [s EXCEPT !.node = CreateLeafNodePair(s.node, at, l, AllocNext(s.node, l), w,
                                                  split, s.cvar.bsp_split_ratio)],
            sp, at),
        sp, at, TRUE)

OrElse(id, other) == IF id # NoNode THEN id ELSE other

TileBsp(s, sp, w, split) ==
    SplitLeaf(s, sp, w, split,
              OrElse(GetNodeWithId(s.node, s.vs[sp].Tree, s.cvar.bsp_insertion_point,
                                   Virtual_Space_Bsp),
                     GetFirstMinDepthLeafNode(s.node, s.vs[sp].Tree)),
              AllocNode(s.node))

\* Monocle: the new node goes to the end of the list.
AppendNode(s, sp, w, tail, id) ==
    ResizeWindowToRegionSize(
        [s EXCEPT !.node = [s.node EXCEPT
            ![id] = [CreateLeafNode(NoNode, w, s.cvar.bsp_split_ratio)
                       EXCEPT !.Left = tail, !.Region = FullRegion(sp, s.vs[sp])],
            ![tail].Right = id]],
        id)

TileMonocle(s, sp, w) ==
    AppendNode(s, sp, w, GetLastLeafNode(s.node, s.vs[sp].Tree), AllocNode(s.node))

\* TileWindowOnSpace(Window, Space, VirtualSpace).
CreateRoot(s, sp, w, id) ==
    ResizeWindowToRegionSize(
        [s EXCEPT !.node[id] = [CreateLeafNode(NoNode, w, s.cvar.bsp_split_ratio)
                                  EXCEPT !.Region = FullRegion(sp, s.vs[sp])],
                  !.vs[sp].Tree = id], id)

TileWindowOnSpace(s, sp, w, split) ==
    IF s.vs[sp].Mode = Virtual_Space_Float THEN s
    ELSE IF s.vs[sp].Tree = NoNode THEN CreateRoot(s, sp, w, AllocNode(s.node))
    ELSE IF GetNodeWithId(s.node, s.vs[sp].Tree, w, s.vs[sp].Mode) # NoNode THEN s
    ELSE IF s.vs[sp].Mode = Virtual_Space_Bsp THEN TileBsp(s, sp, w, split)
    ELSE TileMonocle(s, sp, w)

\* Forget every Zoom pointer to a node of the set gone.
ClearZoom(n, gone) ==
    [i \in DOMAIN n |-> IF n[i].Zoom \in gone THEN [n[i] EXCEPT !.Zoom = NoNode] ELSE n[i]]

\* BSP: the parent takes over what the sibling held, both children are freed.
RemoveLeaf(s, sp, id, par, sib) ==
    LET n == s.node
        n1 == IF IsLeafNode(n, sib)
              THEN [n EXCEPT ![par].WindowId = n[sib].WindowId,
                             ![par].Left = NoNode,
                             ![par].Right = NoNode,
                             ![par].Split = Split_None,
                             ![par].Zoom = NoNode,
                             ![par].Preselect = n[sib].Preselect]
              ELSE [n EXCEPT ![par].Left = n[sib].Left,
                             ![par].Right = n[sib].Right,
                             ![par].Split = n[sib].Split,
                             ![par].Ratio = n[sib].Ratio,
                             ![par].Zoom = n[sib].Zoom,
                             ![n[sib].Left].Parent = par,
                             ![n[sib].Right].Parent = par]
    IN  ApplyNodeRegion(
            RecomputeBelow(
                [s EXCEPT !.node = ClearZoom([n1 EXCEPT ![id] = FreeNode, ![sib] = FreeNode],
                                             {id, sib})],
                sp, par),
            sp, par, TRUE)

Sibling(n, id) ==
    IF n[n[id].Parent].Left = id THEN n[n[id].Parent].Right ELSE n[n[id].Parent].Left

UntileBsp(s, sp, id) ==
    IF s.node[id].Parent = NoNode
    THEN [s EXCEPT !.node[id] = FreeNode, !.vs[sp].Tree = NoNode]
    ELSE RemoveLeaf(s, sp, id, s.node[id].Parent, Sibling(s.node, id))

\* Monocle: the node is unlinked from the list.
UntileMonocle(s, sp, id) ==
    LET n == s.node
        prev == n[id].Left
        next == n[id].Right
        n1 == IF prev # NoNode THEN [n EXCEPT ![prev].Right = next] ELSE n
        n2 == IF next # NoNode THEN [n1 EXCEPT ![next].Left = prev] ELSE n1
    IN  [s EXCEPT !.node = [n2 EXCEPT ![id] = FreeNode],
                  !.vs[sp].Tree = IF s.vs[sp].Tree = id THEN next ELSE @]

\* UntileWindowFromSpace(Window, Space, VirtualSpace).
UntileNode(s, sp, id) ==
    IF s.vs[sp].Tree = NoNode \/ s.vs[sp].Mode = Virtual_Space_Float \/ id = NoNode THEN s
    ELSE IF s.vs[sp].Mode = Virtual_Space_Bsp THEN UntileBsp(s, sp, id)
    ELSE UntileMonocle(s, sp, id)

UntileWindowFromSpace(s, sp, w) ==
    UntileNode(s, sp, GetNodeWithId(s.node, s.vs[sp].Tree, w, s.vs[sp].Mode))

\* FreeNodeTree(Tree, Mode).
FreeNodeTree(s, sp) ==
    LET ids == TreeNodes(s.node, s.vs[sp].Tree, s.vs[sp].Mode)
    IN  [s EXCEPT !.node = [i \in DOMAIN s.node |-> IF i \in ids THEN FreeNode ELSE s.node[i]]]

\* EqualizeNodeTree: Ratio = leafCount(Left) / leafCount(node) at each
\* internal node.
EqualizeNodeTree(n, root) ==
    LET inner == {i \in SeqToSet(SubtreeSeq(n, root)) : ~IsLeafNode(n, i)}
    IN  [i \in DOMAIN n |->
            IF i \in inner
            THEN [n[i] EXCEPT !.Ratio = F32Div(Len(LeafSeq(n, n[i].Left)),
                                               Len(LeafSeq(n, i)))]
            ELSE n[i]]

\* ------------------------------------------------------------ the variables
VARIABLES node, vs, win, focused, cvar, env, file, log, last, aborted, steps

vars == << node, vs, win, focused, cvar, env, file, log, last, aborted, steps >>

Cur ==
    [node |-> node, vs |-> vs, win |-> win, focused |-> focused, cvar |-> cvar,
     env |-> env, file |-> file, log |-> log, last |-> last, aborted |-> aborted]

NoCommand ==
    [cmd |-> "none", arg |-> "", exit |-> "none", src |-> NoNode, tgt |-> NoNode,
     anc |-> NoNode]

\* A command starts with an empty call log.
Begin(s, cmd, arg) ==
    [s EXCEPT !.log = << >>, !.last = [NoCommand EXCEPT !.cmd = cmd, !.arg = arg]]

\* The exit path a command took and the nodes it worked on.
Out(s, exit, src, tgt, anc) ==
    [s EXCEPT !.last.exit = exit, !.last.src = src, !.last.tgt = tgt, !.last.anc = anc]

\* After the body of a command: release and destroy, unless the process is gone.
Finish(s, sp) == IF s.aborted THEN s ELSE VspaceRelease(s, sp)

\* ------------------------------------------------------------------- Swap
\* The node Swap and Warp pick in monocle mode.
MonocleNeighbour(n, root, windowNode, dir) ==
    IF dir \in {"west", "prev"}
    THEN IF n[windowNode].Left # NoNode THEN n[windowNode].Left
         ELSE GetLastLeafNode(n, root)
    ELSE IF dir \in {"east", "next"}
    THEN IF n[windowNode].Right # NoNode THEN n[windowNode].Right
         ELSE GetFirstLeafNode(n, root)
    ELSE NoNode

SwapMonocle(s, sp, window, dir) ==
    LET n == s.node
        root == s.vs[sp].Tree
        windowNode == GetNodeWithId(n, root, window, Virtual_Space_Monocle)
        closestNode == MonocleNeighbour(n, root, windowNode, dir)
    IN  IF windowNode = NoNode THEN Out(s, "no_node", NoNode, NoNode, NoNode)
        ELSE IF closestNode # NoNode /\ closestNode # windowNode
        THEN Out([s EXCEPT !.node = SwapNodeIds(n, windowNode, closestNode)],
                 "swapped", windowNode, closestNode, NoNode)
        ELSE Out(s, "no_target", windowNode, NoNode, NoNode)

\* A faulty exchange: the second window is not resized.
SwapAndResize_Once(s, windowNode, closestNode) ==
    ResizeWindowToRegionSize(
        [s EXCEPT !.node = SwapNodeIds(s.node, windowNode, closestNode)], windowNode)

\* SwapNodeIds and the two ResizeWindowToRegionSize that follow it.
SwapAndResize(s, windowNode, closestNode) ==
    LET s1 == [s EXCEPT !.node = SwapNodeIds(s.node, windowNode, closestNode)]
        s2 == ResizeWindowToRegionSize(s1, windowNode)
    IN  ResizeWindowToRegionSize(s2, closestNode)

SwapBsp(s, sp, window, dir, ord) ==
    LET n == s.node
        root == s.vs[sp].Tree
        windowNode == GetNodeWithId(n, root, window, Virtual_Space_Bsp)
        closest == FindTarget(s, sp, window, windowNode, dir, ord)
        closestNode == GetNodeWithId(n, root, closest, Virtual_Space_Bsp)
    IN  IF windowNode = NoNode THEN Out(s, "no_node", NoNode, NoNode, NoNode)
        ELSE IF closest = NoWindow THEN Out(s, "no_target", windowNode, NoNode, NoNode)
        ELSE IF closestNode = NoNode THEN AssertFailed(s)
        ELSE Out(SwapAndResize(s, windowNode, closestNode),
                 "swapped", windowNode, closestNode, NoNode)

SwapWindow(s0, dir, ord) ==
    LET s == Begin(s0, "swap", dir)
        window == GetWindowByID(s, s.cvar.bsp_insertion_point)
        sp == ActiveSpaceOf(s)
        s1 == AXLibActiveSpace(s)
        s2 == AcquireVirtualSpace(s1, sp)
    IN  IF window = NoWindow THEN Out(s, "out", NoNode, NoNode, NoNode)
        ELSE IF SpaceType(sp) # kCGSSpaceUser
        THEN SpaceFree(Out(s1, "space_free", NoNode, NoNode, NoNode), sp)
        ELSE IF s2.vs[sp].Tree = NoNode \/ s2.vs[sp].Mode = Virtual_Space_Float
        THEN VspaceRelease(Out(s2, "vspace_release", NoNode, NoNode, NoNode), sp)
        ELSE IF s2.vs[sp].Mode = Virtual_Space_Bsp
        THEN Finish(SwapBsp(s2, sp, window, dir, ord), sp)
        ELSE Finish(SwapMonocle(s2, sp, window, dir), sp)

\* ------------------------------------------------------------------- Warp
\* A faulty move: the window is untiled and never tiled again.
WarpRetile_Lost(s, sp, window, closest, split) ==
    UpdateCVarInsertionPoint(
        UpdateCVarInsertionPoint(UntileWindowFromSpace(s, sp, window), closest), window)

\* A faulty move: the insertion point is the window again before the window
\* is tiled.
WarpRetile_Early(s, sp, window, closest, split) ==
    LET b1 == UntileWindowFromSpace(s, sp, window)
        b2 == UpdateCVarInsertionPoint(b1, closest)
        b3 == UpdateCVarInsertionPoint(b2, window)
    IN  TileWindowOnSpace(b3, sp, window, split)

\* The tree layout is modified: untile, tile at the target, and the
\* insertion point is the window again.
WarpRetile(s, sp, window, closest, split) ==
    LET b1 == UntileWindowFromSpace(s, sp, window)
        b2 == UpdateCVarInsertionPoint(b1, closest)
        b3 == TileWindowOnSpace(b2, sp, window, split)
    IN  UpdateCVarInsertionPoint(b3, window)

WarpBsp(s, sp, window, dir, ord, split) ==
    LET n == s.node
        root == s.vs[sp].Tree
        windowNode == GetNodeWithId(n, root, window, Virtual_Space_Bsp)
        closest == FindTarget(s, sp, window, windowNode, dir, ord)
        closestNode == GetNodeWithId(n, root, closest, Virtual_Space_Bsp)
        \* same parent: a regular swap
        a1 == [s EXCEPT !.node = SwapNodeIds(n, windowNode, closestNode)]
        a2 == ResizeWindowToRegionSize(a1, windowNode)
        a3 == ResizeWindowToRegionSize(a2, closestNode)
        b4 == WarpRetile(s, sp, window, closest, split)
        focusedNode == GetNodeWithId(b4.node, b4.vs[sp].Tree, window, Virtual_Space_Bsp)
    IN  IF windowNode = NoNode THEN AssertFailed(s)
        ELSE IF closest = NoWindow THEN Out(s, "no_target", windowNode, NoNode, NoNode)
        ELSE IF closestNode = NoNode THEN AssertFailed(s)
        ELSE IF n[windowNode].Parent = n[closestNode].Parent
        THEN Out(a3, "swapped", windowNode, closestNode, NoNode)
        ELSE IF focusedNode = NoNode THEN AssertFailed(b4)
        ELSE Out(b4, "warped", windowNode, closestNode, NoNode)

WarpWindow(s0, dir, ord, split) ==
    LET s == Begin(s0, "warp", dir)
        window == GetWindowByID(s, s.cvar.bsp_insertion_point)
        sp == ActiveSpaceOf(s)
        s1 == AXLibActiveSpace(s)
        s2 == AcquireVirtualSpace(s1, sp)
    IN  IF window = NoWindow THEN Out(s, "out", NoNode, NoNode, NoNode)
        ELSE IF SpaceType(sp) # kCGSSpaceUser
        THEN SpaceFree(Out(s1, "space_free", NoNode, NoNode, NoNode), sp)
        ELSE IF s2.vs[sp].Tree = NoNode \/ s2.vs[sp].Mode = Virtual_Space_Float
        THEN VspaceRelease(Out(s2, "vspace_release", NoNode, NoNode, NoNode), sp)
        ELSE IF s2.vs[sp].Mode = Virtual_Space_Bsp
        THEN Finish(WarpBsp(s2, sp, window, dir, ord, split), sp)
        ELSE Finish(SwapMonocle(s2, sp, window, dir), sp)

\* ------------------------------------------------------------ AdjustRatio
\* A faulty sign: the step negated when the source lies to the left.
RatioOffset_Reversed(s, windowNode, ancestor) ==
    IF windowNode = s.node[ancestor].Left
       \/ IsNodeInTree(s.node, s.node[ancestor].Left, windowNode)
    THEN 0 - s.cvar.bsp_split_ratio
    ELSE s.cvar.bsp_split_ratio

\* The signed step: the configured ratio, negated unless the source is the
\* ancestor's left child or lies under it.
RatioOffset(s, windowNode, ancestor) ==
    IF windowNode = s.node[ancestor].Left
       \/ IsNodeInTree(s.node, s.node[ancestor].Left, windowNode)
    THEN s.cvar.bsp_split_ratio
    ELSE 0 - s.cvar.bsp_split_ratio

\* A faulty bound check: a ratio out of range is clamped and applied.
ApplyRatio_Clamped(s, sp, ancestor, ratio) ==
    LET r == IF ratio < F32Tenths(1) THEN F32Tenths(1)
             ELSE IF ratio > F32Tenths(9) THEN F32Tenths(9) ELSE ratio
    IN  Out(ApplyNodeRegion(
                RecomputeBelow([s EXCEPT !.node[ancestor].Ratio = r], sp, ancestor),
                sp, ancestor, TRUE),
            "applied", s.last.src, s.last.tgt, ancestor)

\* The ratio is applied only when it lies in [0.1, 0.9].
ApplyRatio(s, sp, ancestor, ratio) ==
    IF RatioInRange(ratio)
    THEN Out(ApplyNodeRegion(
                 RecomputeBelow([s EXCEPT !.node[ancestor].Ratio = ratio], sp, ancestor),
                 sp, ancestor, TRUE),
             "applied", s.last.src, s.last.tgt, ancestor)
    ELSE Out(s, "refused", s.last.src, s.last.tgt, ancestor)

AdjustBsp(s, sp, window, dir, ord) ==
    LET n == s.node
        root == s.vs[sp].Tree
        windowNode == GetNodeWithId(n, root, window, Virtual_Space_Bsp)
        closest == FindTarget(s, sp, window, windowNode, dir, ord)
        closestNode == GetNodeWithId(n, root, closest, Virtual_Space_Bsp)
        ancestor == GetLowestCommonAncestor(n, windowNode, closestNode)
        ratio == F32Add(n[ancestor].Ratio, RatioOffset(s, windowNode, ancestor))
    IN  IF windowNode = NoNode THEN Out(s, "no_node", NoNode, NoNode, NoNode)
        ELSE IF closest = NoWindow THEN Out(s, "no_target", windowNode, NoNode, NoNode)
        ELSE IF closestNode = NoNode THEN AssertFailed(s)
        ELSE IF ancestor = NoNode THEN Out(s, "no_ancestor", windowNode, closestNode, NoNode)
        ELSE ApplyRatio(Out(s, "found", windowNode, closestNode, ancestor),
                        sp, ancestor, ratio)

AdjustWindowRatio(s0, dir, ord) ==
    LET s == Begin(s0, "ratio", dir)
        window == GetWindowByID(s, s.cvar.bsp_insertion_point)
        sp == ActiveSpaceOf(s)
        s1 == AXLibActiveSpace(s)
        s2 == AcquireVirtualSpace(s1, sp)
    IN  IF window = NoWindow THEN Out(s, "out", NoNode, NoNode, NoNode)
        ELSE IF SpaceType(sp) # kCGSSpaceUser
        THEN SpaceFree(Out(s1, "space_free", NoNode, NoNode, NoNode), sp)
        ELSE IF \/ s2.vs[sp].Tree = NoNode
                \/ s2.vs[sp].Mode # Virtual_Space_Bsp
                \/ IsLeafNode(s2.node, s2.vs[sp].Tree)
        THEN VspaceRelease(Out(s2, "vspace_release", NoNode, NoNode, NoNode), sp)
        ELSE Finish(AdjustBsp(s2, sp, window, dir, ord), sp)

\* ------------------------------------------------------------ FocusMonitor
Monitors == {0, 1}
AXLibDisplayCount(s) == s.env.displays

\* sscanf(Op, "%d", ..): the number a token stands for, or -1 when it is none.
ParseNumber(op) ==
    IF op = "1" THEN 1 ELSE IF op = "2" THEN 2 ELSE IF op = "3" THEN 3
    ELSE IF op = "4" THEN 4 ELSE IF op = "5" THEN 5 ELSE IF op = "6" THEN 6 ELSE 0 - 1

\* A faulty FocusMonitor: the windows of every space are listed.
FocusMonitorId_AnySpace(s, m, ord) ==
    LET sp == s.env.monActive[m]
        s1 == AXLibActiveSpaceOfMonitor(s, m)
    IN  IF ~(m \in Monitors /\ m < AXLibDisplayCount(s)) THEN [st |-> s, ok |-> FALSE]
        ELSE IF SpaceType(sp) # kCGSSpaceUser \/ Len(ord) = 0
        THEN [st |-> AXLibDestroySpace(s1, sp), ok |-> FALSE]
        ELSE [st |-> AXLibDestroySpace(AXLibSetFocusedWindow(s1, ord[1]), sp), ok |-> TRUE]

\* FocusMonitor(unsigned MonitorId): focus the first visible window of the
\* monitor's active space; ok is the function's result.
FocusMonitorId(s, m, ord) ==
    LET sp == s.env.monActive[m]
        s1 == AXLibActiveSpaceOfMonitor(s, m)
        ws == VisibleWindows(s, sp, TRUE, ord)
    IN  IF ~(m \in Monitors /\ m < AXLibDisplayCount(s)) THEN [st |-> s, ok |-> FALSE]
        ELSE IF SpaceType(sp) # kCGSSpaceUser \/ Len(ws) = 0
        THEN [st |-> AXLibDestroySpace(s1, sp), ok |-> FALSE]
        ELSE [st |-> AXLibDestroySpace(AXLibSetFocusedWindow(s1, ws[1]), sp), ok |-> TRUE]

FocusCycles(s) ==
    s.cvar.window_focus_cycle = Window_Focus_Cycle_All \/ s.cvar.monitor_focus_cycle

\* FocusMonitor(char *Op), the part between AXLibActiveSpace and space_free.
FocusMonitorBody(s, op, ord) ==
    LET src == s.env.activeMon
        num == ParseNumber(op)
        prev == FocusMonitorId(s, src - 1, ord)
        next == FocusMonitorId(s, src + 1, ord)
    IN  IF op = "prev"
        THEN IF ~prev.ok /\ FocusCycles(s)
             THEN FocusMonitorId(prev.st, AXLibDisplayCount(s) - 1, ord).st
             ELSE prev.st
        ELSE IF op = "next"
        THEN IF ~next.ok /\ FocusCycles(s)
             THEN FocusMonitorId(next.st, 0, ord).st
             ELSE next.st
        ELSE IF num >= 0 THEN FocusMonitorId(s, num - 1, ord).st
        ELSE s

\* FocusMonitor(char *Op) as other commands call it: the call log goes on.
FocusMonitorOp(s, op, ord) ==
    LET sp == ActiveSpaceOf(s)
    IN  AXLibDestroySpace(FocusMonitorBody(AXLibActiveSpace(s), op, ord), sp)

FocusMonitor(s0, op, ord) ==
    Out(FocusMonitorOp(Begin(s0, "focus_monitor", op), op, ord),
        "space_free", NoNode, NoNode, NoNode)

\* ------------------------------------------------------------------ Focus
\* WrapMonitor as the two branches of FocusWindow compute it.
WrapMonitor(s) ==
    IF s.cvar.window_focus_cycle = Window_Focus_Cycle_All
    THEN AXLibDisplayCount(s) = 1
    ELSE s.cvar.window_focus_cycle = Window_Focus_Cycle_Monitor

\* With the rectangles of the windows themselves, on a fullscreen space.
FindClosestFullscreenWindow(s, sp, match, direction, wrap, ord) ==
    LET dir == IF direction = "prev" THEN "west"
               ELSE IF direction = "next" THEN "east" ELSE direction
        ws == VisibleWindows(s, sp, TRUE, ord)
        Cand(i) == ws[i] # match
                   /\ WindowIsInDirection(dir, s.win[match].Rect, s.win[ws[i]].Rect)
        Dist(i) == GetWindowDistance(sp, s.win[match].Rect, s.win[ws[i]].Rect, dir, wrap)
        ok == {i \in 1..Len(ws) : Cand(i) /\ Dist(i) < Infinite}
        best == {i \in ok : \A j \in ok : Dist(i) <= Dist(j)}
    IN  IF ok = {} THEN NoWindow
        ELSE ws[CHOOSE i \in best : \A j \in best : i <= j]

FocusWindowInFullscreenSpace(s, sp, dir, ord) ==
    LET window == GetFocusedWindow(s)
        closest == FindClosestFullscreenWindow(s, sp, window, dir, WrapMonitor(s), ord)
    IN  IF window = NoWindow \/ closest = NoWindow THEN s
        ELSE AXLibSetFocusedWindow(s, closest)

\* No insertion-point window: the last or the first leaf gets the focus.
FocusEdge(s, sp, dir) ==
    LET n == s.node
        root == s.vs[sp].Tree
        nd == IF dir \in {"prev", "west", "north"} THEN GetLastLeafNode(n, root)
              ELSE IF dir \in {"next", "east", "south"} THEN GetFirstLeafNode(n, root)
              ELSE NoNode
    IN  IF nd = NoNode THEN Out(s, "no_target", NoNode, NoNode, NoNode)
        ELSE IF GetWindowByID(s, n[nd].WindowId) = NoWindow THEN AssertFailed(s)
        ELSE Out(AXLibSetFocusedWindow(s, n[nd].WindowId), "focused", NoNode, nd, NoNode)

\* A faulty BSP focus: a failed search goes to the adjacent monitor under
\* every focus-cycle mode.
FocusBsp_AnyMode(s, sp, window, dir, ord) ==
    LET n == s.node
        root == s.vs[sp].Tree
        windowNode == GetNodeWithId(n, root, window, Virtual_Space_Bsp)
        wrap == WrapMonitor(s)
        u == FindWindowUndirected(s, sp, windowNode, dir, wrap)
        closest == IF u # NoWindow THEN u
                   ELSE FindClosestWindow(s, sp, window, dir, wrap, ord)
    IN  IF windowNode = NoNode THEN AssertFailed(s)
        ELSE IF closest # NoWindow
        THEN Out(AXLibSetFocusedWindow(s, closest), "focused", windowNode,
                 GetNodeWithId(n, root, closest, Virtual_Space_Bsp), NoNode)
        ELSE IF dir \in {"east", "next"}
        THEN Out(FocusMonitorOp(s, "next", ord), "monitor", windowNode, NoNode, NoNode)
        ELSE IF dir \in {"west", "prev"}
        THEN Out(FocusMonitorOp(s, "prev", ord), "monitor", windowNode, NoNode, NoNode)
        ELSE Out(s, "no_target", windowNode, NoNode, NoNode)

FocusBsp(s, sp, window, dir, ord) ==
    LET n == s.node
        root == s.vs[sp].Tree
        windowNode == GetNodeWithId(n, root, window, Virtual_Space_Bsp)
        wrap == WrapMonitor(s)
        u == FindWindowUndirected(s, sp, windowNode, dir, wrap)
        closest == IF u # NoWindow THEN u
                   ELSE FindClosestWindow(s, sp, window, dir, wrap, ord)
    IN  IF windowNode = NoNode THEN AssertFailed(s)
        ELSE IF closest # NoWindow
        THEN Out(AXLibSetFocusedWindow(s, closest), "focused", windowNode,
                 GetNodeWithId(n, root, closest, Virtual_Space_Bsp), NoNode)
        ELSE IF s.cvar.window_focus_cycle = Window_Focus_Cycle_All /\ dir \in {"east", "next"}
        THEN Out(FocusMonitorOp(s, "next", ord), "monitor", windowNode, NoNode, NoNode)
        ELSE IF s.cvar.window_focus_cycle = Window_Focus_Cycle_All /\ dir \in {"west", "prev"}
        THEN Out(FocusMonitorOp(s, "prev", ord), "monitor", windowNode, NoNode, NoNode)
        ELSE Out(s, "no_target", windowNode, NoNode, NoNode)

FocusMonocle(s, sp, window, dir, ord) ==
    LET n == s.node
        root == s.vs[sp].Tree
        windowNode == GetNodeWithId(n, root, window, Virtual_Space_Monocle)
        all == s.cvar.window_focus_cycle = Window_Focus_Cycle_All
        mon == s.cvar.window_focus_cycle = Window_Focus_Cycle_Monitor
        west == dir \in {"west", "prev"}
        east == dir \in {"east", "next"}
        link == IF west THEN n[windowNode].Left
                ELSE IF east THEN n[windowNode].Right ELSE NoNode
        edge == IF west THEN GetLastLeafNode(n, root) ELSE GetFirstLeafNode(n, root)
        nd == IF link # NoNode THEN link
              ELSE IF (west \/ east) /\ ((all /\ AXLibDisplayCount(s) = 1) \/ (~all /\ mon))
              THEN edge
              ELSE NoNode
        toMonitor == (west \/ east) /\ link = NoNode /\ all /\ AXLibDisplayCount(s) # 1
        s1 == IF toMonitor THEN FocusMonitorOp(s, IF west THEN "prev" ELSE "next", ord)
              ELSE s
    IN  IF windowNode = NoNode THEN Out(s, "no_node", NoNode, NoNode, NoNode)
        ELSE IF nd = NoNode
        THEN Out(s1, IF toMonitor THEN "monitor" ELSE "no_target", windowNode, NoNode, NoNode)
        ELSE IF GetWindowByID(s, n[nd].WindowId) = NoWindow THEN AssertFailed(s)
        ELSE Out(AXLibSetFocusedWindow(s, n[nd].WindowId), "focused", windowNode, nd, NoNode)

FocusWindow(s0, dir, ord) ==
    LET s == Begin(s0, "focus", dir)
        window == GetWindowByID(s, s.cvar.bsp_insertion_point)
        sp == ActiveSpaceOf(s)
        s1 == AXLibActiveSpace(s)
        s2 == AcquireVirtualSpace(s1, sp)
    IN  IF SpaceType(sp) = kCGSSpaceFullscreen
        THEN SpaceFree(Out(FocusWindowInFullscreenSpace(s1, sp, dir, ord),
                           "space_free", NoNode, NoNode, NoNode), sp)
        ELSE IF SpaceType(sp) # kCGSSpaceUser
        THEN SpaceFree(Out(s1, "space_free", NoNode, NoNode, NoNode), sp)
        ELSE IF s2.vs[sp].Tree = NoNode \/ s2.vs[sp].Mode = Virtual_Space_Float
        THEN VspaceRelease(Out(s2, "vspace_release", NoNode, NoNode, NoNode), sp)
        ELSE IF window = NoWindow THEN Finish(FocusEdge(s2, sp, dir), sp)
        ELSE IF s2.vs[sp].Mode = Virtual_Space_Bsp
        THEN Finish(FocusBsp(s2, sp, window, dir, ord), sp)
        ELSE Finish(FocusMonocle(s2, sp, window, dir, ord), sp)

\* ------------------------------------------------------------ zoom toggles
\* A faulty reset: the parent zoom stays.
ResetParentZoom_Kept(s, nd) == s

\* Window is in parent-zoom, reset state.
ResetParentZoom(s, nd) ==
    LET par == s.node[nd].Parent
    IN  IF par # NoNode /\ s.node[par].Zoom = nd
        THEN [s EXCEPT !.node[par].Zoom = NoNode] ELSE s

\* A faulty fullscreen zoom: the window zoomed before keeps the root's region.
FullscreenZoomBody_Over(s, sp) ==
    LET n == s.node
        root == s.vs[sp].Tree
        window == GetFocusedWindow(s)
        nd == GetNodeWithId(n, root, window, Virtual_Space_Bsp)
        a1 == ResizeWindowToRegionSize(s, nd)
        a2 == [a1 EXCEPT !.node[root].Zoom = NoNode]
        b1 == ResetParentZoom(s, nd)
        b3 == [b1 EXCEPT !.node[root].Zoom = nd]
        b4 == ResizeWindowToExternalRegionSize(b3, nd, b3.node[root].Region)
    IN  IF window = NoWindow THEN Out(s, "no_window", NoNode, NoNode, NoNode)
        ELSE IF nd = NoNode THEN Out(s, "no_node", NoNode, NoNode, NoNode)
        ELSE IF n[root].Zoom = nd THEN Out(a2, "unzoomed", nd, NoNode, NoNode)
        ELSE Out(b4, "zoomed", nd, NoNode, NoNode)

FullscreenZoomBody(s, sp) ==
    LET n == s.node
        root == s.vs[sp].Tree
        window == GetFocusedWindow(s)
        nd == GetNodeWithId(n, root, window, Virtual_Space_Bsp)
        par == n[nd].Parent
        \* already in fullscreen zoom: unzoom
        a1 == ResizeWindowToRegionSize(s, nd)
        a2 == [a1 EXCEPT !.node[root].Zoom = NoNode]
        \* otherwise reset a parent zoom, unzoom the other window, zoom
        b1 == ResetParentZoom(s, nd)
        b2 == IF b1.node[root].Zoom # NoNode
              THEN ResizeWindowToRegionSize(b1, b1.node[root].Zoom) ELSE b1
        b3 == [b2 EXCEPT !.node[root].Zoom = nd]
        b4 == ResizeWindowToExternalRegionSize(b3, nd, b3.node[root].Region)
    IN  IF window = NoWindow THEN Out(s, "no_window", NoNode, NoNode, NoNode)
        ELSE IF nd = NoNode THEN Out(s, "no_node", NoNode, NoNode, NoNode)
        ELSE IF n[root].Zoom = nd THEN Out(a2, "unzoomed", nd, NoNode, NoNode)
        ELSE Out(b4, "zoomed", nd, NoNode, NoNode)

ParentZoomBody(s, sp) ==
    LET n == s.node
        root == s.vs[sp].Tree
        window == GetFocusedWindow(s)
        nd == GetNodeWithId(n, root, window, Virtual_Space_Bsp)
        par == n[nd].Parent
        a1 == ResizeWindowToRegionSize(s, nd)
        a2 == [a1 EXCEPT !.node[par].Zoom = NoNode]
        b1 == IF n[root].Zoom = nd THEN [s EXCEPT !.node[root].Zoom = NoNode] ELSE s
        b2 == IF b1.node[par].Zoom # NoNode
              THEN ResizeWindowToRegionSize(b1, b1.node[par].Zoom) ELSE b1
        b3 == [b2 EXCEPT !.node[par].Zoom = nd]
        b4 == ResizeWindowToExternalRegionSize(b3, nd, b3.node[par].Region)
    IN  IF window = NoWindow THEN Out(s, "no_window", NoNode, NoNode, NoNode)
        ELSE IF nd = NoNode THEN Out(s, "no_node", NoNode, NoNode, NoNode)
        ELSE IF par = NoNode THEN Out(s, "no_parent", nd, NoNode, NoNode)
        ELSE IF n[par].Zoom = nd THEN Out(a2, "unzoomed", nd, NoNode, par)
        ELSE Out(b4, "zoomed", nd, NoNode, par)

\* ------------------------------------------------------------ ToggleSplit
ToggleSplitBody(s, sp) ==
    LET n == s.node
        nd == GetNodeWithId(n, s.vs[sp].Tree, s.cvar.bsp_insertion_point, Virtual_Space_Bsp)
        par == n[nd].Parent
        split == IF n[par].Split = Split_Horizontal THEN Split_Vertical
                 ELSE IF n[par].Split = Split_Vertical THEN Split_Horizontal
                 ELSE n[par].Split
        s1 == RecomputeBelow([s EXCEPT !.node[par].Split = split], sp, par)
    IN  IF nd = NoNode THEN Out(s, "no_node", NoNode, NoNode, NoNode)
        ELSE IF par = NoNode THEN Out(s, "no_parent", nd, NoNode, NoNode)
        ELSE Out(ApplyNodeRegion(s1, sp, par, TRUE), "toggled", nd, NoNode, par)

\* ----------------------------------------------- Rotate, Mirror, Equalize
\* A faulty rotation: a node without a split gets one.
RotateNode_AnySplit(nd, degrees) ==
    IF degrees = "180" THEN nd
    ELSE IF nd.Split = Split_Horizontal THEN [nd EXCEPT !.Split = Split_Vertical]
    ELSE [nd EXCEPT !.Split = Split_Horizontal]

\* A faulty rotation: the children are exchanged and the ratio is kept.
RotateNode_KeepRatio(nd, degrees) ==
    LET swap == \/ degrees = "90" /\ nd.Split = Split_Vertical
                \/ degrees = "270" /\ nd.Split = Split_Horizontal
                \/ degrees = "180"
        a == IF swap THEN [nd EXCEPT !.Left = nd.Right, !.Right = nd.Left] ELSE nd
    IN  IF degrees = "180" THEN a
        ELSE IF a.Split = Split_Horizontal THEN [a EXCEPT !.Split = Split_Vertical]
        ELSE IF a.Split = Split_Vertical THEN [a EXCEPT !.Split = Split_Horizontal]
        ELSE a

\* A faulty rotation: the children are exchanged and the split is kept.
RotateNode_KeepSplit(nd, degrees) ==
    LET swap == \/ degrees = "90" /\ nd.Split = Split_Vertical
                \/ degrees = "270" /\ nd.Split = Split_Horizontal
                \/ degrees = "180"
    IN  IF swap
        THEN [nd EXCEPT !.Left = nd.Right, !.Right = nd.Left,
                        !.Ratio = F32OneMinus(nd.Ratio)]
        ELSE nd

\* RotateBSPTree at one node; the recursion visits every node of the tree.
RotateNode(nd, degrees) ==
    LET swap == \/ degrees = "90" /\ nd.Split = Split_Vertical
                \/ degrees = "270" /\ nd.Split = Split_Horizontal
                \/ degrees = "180"
        a == IF swap
             THEN [nd EXCEPT !.Left = nd.Right, !.Right = nd.Left,
                             !.Ratio = F32OneMinus(nd.Ratio)]
             ELSE nd
    IN  IF degrees = "180" THEN a
        ELSE IF a.Split = Split_Horizontal THEN [a EXCEPT !.Split = Split_Vertical]
        ELSE IF a.Split = Split_Vertical THEN [a EXCEPT !.Split = Split_Horizontal]
        ELSE a

RotateBSPTree(n, root, degrees) ==
    LET ids == SeqToSet(SubtreeSeq(n, root))
    IN  [i \in DOMAIN n |-> IF i \in ids THEN RotateNode(n[i], degrees) ELSE n[i]]

\* Faulty mirrors: one exchanges the children of every internal node, the
\* other also turns the split of the nodes it exchanges.
MirrorBSPTree_Everywhere(n, root, axis) ==
    LET ids == {i \in SeqToSet(SubtreeSeq(n, root)) : ~IsLeafNode(n, i)}
    IN  [i \in DOMAIN n |->
            IF i \in ids THEN [n[i] EXCEPT !.Left = n[i].Right, !.Right = n[i].Left]
            ELSE n[i]]
MirrorBSPTree_Turned(n, root, axis) ==
    LET ids == {i \in SeqToSet(SubtreeSeq(n, root)) : ~IsLeafNode(n, i) /\ n[i].Split = axis}
    IN  [i \in DOMAIN n |->
            IF i \in ids
            THEN [n[i] EXCEPT !.Left = n[i].Right, !.Right = n[i].Left,
                              !.Split = IF axis = Split_Vertical THEN Split_Horizontal
                                        ELSE Split_Vertical]
            ELSE n[i]]

MirrorBSPTree(n, root, axis) ==
    LET ids == {i \in SeqToSet(SubtreeSeq(n, root)) : ~IsLeafNode(n, i) /\ n[i].Split = axis}
    IN  [i \in DOMAIN n |->
            IF i \in ids THEN [n[i] EXCEPT !.Left = n[i].Right, !.Right = n[i].Left]
            ELSE n[i]]

RotateBody(s, sp, degrees) ==
    LET root == s.vs[sp].Tree
        s1 == [s EXCEPT !.node = RotateBSPTree(s.node, root, degrees)]
    IN  Out(ApplyNodeRegion(RecomputeBelow(s1, sp, root), sp, root, TRUE),
            "rotated", NoNode, NoNode, root)

MirrorBody(s, sp, direction) ==
    LET root == s.vs[sp].Tree
        s1 == IF direction = "vertical"
              THEN [s EXCEPT !.node = MirrorBSPTree(s.node, root, Split_Vertical)]
              ELSE IF direction = "horizontal"
              THEN [s EXCEPT !.node = MirrorBSPTree(s.node, root, Split_Horizontal)]
              ELSE s
    IN  Out(ApplyNodeRegion(RecomputeBelow(s1, sp, root), sp, root, TRUE),
            "mirrored", NoNode, NoNode, root)

EqualizeBody(s, sp) ==
    LET root == s.vs[sp].Tree
        s1 == [s EXCEPT !.node = EqualizeNodeTree(s.node, root)]
    IN  Out(ApplyNodeRegion(RecomputeBelow(s1, sp, root), sp, root, TRUE),
            "equalized", NoNode, NoNode, root)

\* The frame the BSP-only commands share: active space, user space only,
\* acquire, a tree in BSP mode, the body, release, destroy.
BspOnly(s, body(_, _)) ==
    LET sp == ActiveSpaceOf(s)
        s1 == AXLibActiveSpace(s)
        s2 == AcquireVirtualSpace(s1, sp)
    IN  IF SpaceType(sp) # kCGSSpaceUser
        THEN SpaceFree(Out(s1, "space_free", NoNode, NoNode, NoNode), sp)
        ELSE IF s2.vs[sp].Tree = NoNode \/ s2.vs[sp].Mode # Virtual_Space_Bsp
        THEN VspaceRelease(Out(s2, "vspace_release", NoNode, NoNode, NoNode), sp)
        ELSE Finish(body(s2, sp), sp)

ToggleWindowFullscreenZoom(s0) == BspOnly(Begin(s0, "toggle", "fullscreen"), FullscreenZoomBody)
ToggleWindowParentZoom(s0) == BspOnly(Begin(s0, "toggle", "parent"), ParentZoomBody)
ToggleWindowSplitMode(s0) == BspOnly(Begin(s0, "toggle", "split"), ToggleSplitBody)

RotateWindowTree(s0, degrees) ==
    BspOnly(Begin(s0, "rotate", degrees), LAMBDA s, sp : RotateBody(s, sp, degrees))
MirrorWindowTree(s0, direction) ==
    BspOnly(Begin(s0, "mirror", direction), LAMBDA s, sp : MirrorBody(s, sp, direction))
EqualizeWindowTree(s0) == BspOnly(Begin(s0, "equalize", ""), EqualizeBody)

\* ---------------------------------------------------------- TemporaryRatio
TemporaryRatio(s0, ratio) ==
    LET s == Begin(s0, "ratio_cvar", "")
    IN  Out(Ev([s EXCEPT !.cvar.bsp_split_ratio = ratio], "cvar_split_ratio", 0, NoRegion),
            "out", NoNode, NoNode, NoNode)

\* ------------------------------------------- float, sticky, native fullscreen
IsWindowValid(s, w) == TRUE

\* TileWindow(Window): on the active space, when it is a user space and the
\* window does not float.
TileWindow(s, w, split) ==
    LET sp == ActiveSpaceOf(s)
        s1 == AXLibActiveSpace(s)
        s2 == AcquireVirtualSpace(s1, sp)
    IN  IF s.win[w].Float \/ ~IsWindowValid(s, w) THEN s
        ELSE IF SpaceType(sp) # kCGSSpaceUser THEN AXLibDestroySpace(s1, sp)
        ELSE VspaceRelease(TileWindowOnSpace(s2, sp, w, split), sp)

\* UntileWindow(Window): from the active space's tree.
UntileWindow(s, w) ==
    LET sp == ActiveSpaceOf(s)
        s1 == AXLibActiveSpace(s)
        s2 == AcquireVirtualSpace(s1, sp)
    IN  IF s.win[w].Float \/ ~IsWindowValid(s, w) THEN s
        ELSE IF SpaceType(sp) # kCGSSpaceUser THEN AXLibDestroySpace(s1, sp)
        ELSE VspaceRelease(UntileWindowFromSpace(s2, sp, w), sp)

FloatWindow(s, w) == Ev([s EXCEPT !.win[w].Float = TRUE], "float", w, NoRegion)
UnfloatWindow(s, w) == Ev([s EXCEPT !.win[w].Float = FALSE], "unfloat", w, NoRegion)

ToggleWindowFloat(s0, split) ==
    LET s == Begin(s0, "toggle", "float")
        w == GetFocusedWindow(s)
    IN  IF w = NoWindow THEN Out(s, "out", NoNode, NoNode, NoNode)
        ELSE IF s.win[w].Float
        THEN Out(TileWindow(UnfloatWindow(s, w), w, split), "tiled", NoNode, NoNode, NoNode)
        ELSE Out(FloatWindow(UntileWindow(s, w), w), "floated", NoNode, NoNode, NoNode)

ToggleWindowSticky(s0, split) ==
    LET s == Begin(s0, "toggle", "sticky")
        w == GetFocusedWindow(s)
        off == Ev([s EXCEPT !.win[w].Sticky = FALSE], "sticky", w, NoRegion)
        on == Ev([s EXCEPT !.win[w].Sticky = TRUE], "sticky", w, NoRegion)
    IN  IF w = NoWindow THEN Out(s, "out", NoNode, NoNode, NoNode)
        ELSE IF s.win[w].Sticky
        THEN Out(IF off.win[w].Float THEN TileWindow(UnfloatWindow(off, w), w, split) ELSE off,
                 "unstuck", NoNode, NoNode, NoNode)
        ELSE Out(IF ~on.win[w].Float THEN FloatWindow(UntileWindow(on, w), w) ELSE on,
                 "stuck", NoNode, NoNode, NoNode)

ToggleWindowNativeFullscreen(s0, split) ==
    LET s == Begin(s0, "toggle", "native-fullscreen")
        w == GetFocusedWindow(s)
        off == Ev([s EXCEPT !.win[w].Fullscreen = FALSE], "fullscreen", w, NoRegion)
    IN  IF w = NoWindow THEN Out(s, "out", NoNode, NoNode, NoNode)
        ELSE IF s.win[w].Fullscreen
        THEN Out(TileWindow(off, w, split), "tiled", NoNode, NoNode, NoNode)
        ELSE Out(Ev([UntileWindow(s, w) EXCEPT !.win[w].Fullscreen = TRUE],
                    "fullscreen", w, NoRegion),
                 "untiled", NoNode, NoNode, NoNode)

\* ToggleWindow(Type): another token does nothing.
ToggleWindow(s0, type, split) ==
    IF type = "float" THEN ToggleWindowFloat(s0, split)
    ELSE IF type = "sticky" THEN ToggleWindowSticky(s0, split)
    ELSE IF type = "native-fullscreen" THEN ToggleWindowNativeFullscreen(s0, split)
    ELSE IF type = "fullscreen" THEN ToggleWindowFullscreenZoom(s0)
    ELSE IF type = "parent" THEN ToggleWindowParentZoom(s0)
    ELSE IF type = "split" THEN ToggleWindowSplitMode(s0)
    ELSE Out(Begin(s0, "toggle", type), "out", NoNode, NoNode, NoNode)

\* ------------------------------------------------------ UseInsertionPoint
\* The pre-selection a direction token creates; a token that is no
\* direction leaves the zeroed fields.
CreatePreselect(s, sp, nd, direction) ==
    LET left == direction \in {"west", "north"}
        split == IF direction \in {"west", "east"} THEN Split_Vertical
                 ELSE IF direction \in {"north", "south"} THEN Split_Horizontal
                 ELSE Split_None
        ratio == IF left THEN s.cvar.bsp_split_ratio
                 ELSE F32OneMinus(s.cvar.bsp_split_ratio)
        region == IF split = Split_None THEN NoRegion
                  ELSE IF left
                  THEN LeftRegion(s.node[nd].Region, split, ratio, Gap(s, sp))
                  ELSE RightRegion(s.node[nd].Region, split, ratio, Gap(s, sp))
    IN  [Direction |-> direction, SpawnLeft |-> left, Split |-> split,
         Ratio |-> ratio, Region |-> region]

\* A faulty insertion point: the same direction again attaches it anew.
UseInsertionPointBody_Sticky(s, sp, window, direction) ==
    LET nd == GetNodeWithId(s.node, s.vs[sp].Tree, window, Virtual_Space_Bsp)
    IN  IF nd = NoNode THEN Out(s, "no_node", NoNode, NoNode, NoNode)
        ELSE IF direction = "cancel"
        THEN Out([s EXCEPT !.node[nd].Preselect = NoPreselect],
                 "cancelled", nd, NoNode, NoNode)
        ELSE Out([s EXCEPT !.node[nd].Preselect = CreatePreselect(s, sp, nd, direction)],
                 "preselected", nd, NoNode, NoNode)

UseInsertionPointBody(s, sp, window, direction) ==
    LET nd == GetNodeWithId(s.node, s.vs[sp].Tree, window, Virtual_Space_Bsp)
        had == s.node[nd].Preselect.Direction # "none"
        freed == [s EXCEPT !.node[nd].Preselect = NoPreselect]
    IN  IF nd = NoNode THEN Out(s, "no_node", NoNode, NoNode, NoNode)
        ELSE IF had /\ s.node[nd].Preselect.Direction = direction
        THEN Out(freed, "cleared", nd, NoNode, NoNode)
        ELSE IF direction = "cancel" THEN Out(freed, "cancelled", nd, NoNode, NoNode)
        ELSE Out([s EXCEPT !.node[nd].Preselect = CreatePreselect(s, sp, nd, direction)],
                 "preselected", nd, NoNode, NoNode)

UseInsertionPoint(s0, direction) ==
    LET s == Begin(s0, "insertion_point", direction)
        window == GetFocusedWindow(s)
        sp == ActiveSpaceOf(s)
        s1 == AXLibActiveSpace(s)
        s2 == AcquireVirtualSpace(s1, sp)
    IN  IF window = NoWindow THEN Out(s, "out", NoNode, NoNode, NoNode)
        ELSE IF SpaceType(sp) # kCGSSpaceUser
        THEN SpaceFree(Out(s1, "space_free", NoNode, NoNode, NoNode), sp)
        ELSE IF s2.vs[sp].Tree = NoNode \/ s2.vs[sp].Mode # Virtual_Space_Bsp
        THEN VspaceRelease(Out(s2, "vspace_release", NoNode, NoNode, NoNode), sp)
        ELSE Finish(UseInsertionPointBody(s2, sp, window, direction), sp)

\* ------------------------------------------------------- workspace commands
ShouldDeserializeVirtualSpace(s, sp) == FALSE

RECURSIVE TileAll(_, _, _, _, _)
TileAll(s, sp, q, i, split) ==
    IF i > Len(q) THEN s
    ELSE TileAll(TileWindowOnSpace(s, sp, q[i], split), sp, q, i + 1, split)

\* CreateWindowTreeForSpace: tile every visible window that does not float.
CreateWindowTreeForSpace(s, sp, ord, split) ==
    IF s.vs[sp].Tree # NoNode \/ s.vs[sp].Mode = Virtual_Space_Float THEN s
    ELSE TileAll(s, sp, VisibleWindows(s, sp, FALSE, ord), 1, split)

\* The first leaf of least depth that holds no window.
GetFirstMinDepthPseudoLeafNode(n, root) ==
    MinDepthIn(n, SelectSeq(LeafSeq(n, root), LAMBDA i : n[i].WindowId = NoWindow))

RECURSIVE BindAll(_, _, _, _, _)
BindAll(s, sp, q, i, split) ==
    LET pseudo == GetFirstMinDepthPseudoLeafNode(s.node, s.vs[sp].Tree)
    IN  IF i > Len(q) THEN s
        ELSE IF pseudo # NoNode
        THEN BindAll([s EXCEPT !.node[pseudo].WindowId = q[i]], sp, q, i + 1, split)
        ELSE BindAll(TileWindowOnSpace(s, sp, q[i], split), sp, q, i + 1, split)

\* CreateDeserializedWindowTreeForSpace: the visible windows fill the empty
\* leaves of the tree read back, the others are tiled as usual.
CreateDeserializedWindowTreeForSpace(s, sp, ord, split) ==
    LET q == VisibleWindows(s, sp, FALSE, ord)
        s1 == BindAll(s, sp, q, 1, split)
        s2 == RecomputeAll(s1, sp)
    IN  IF Len(q) = 0 \/ s.vs[sp].Tree = NoNode THEN s
        ELSE ApplyNodeRegion(s2, sp, s2.vs[sp].Tree, FALSE)

LayoutFromString(layout) ==
    IF layout = "bsp" THEN Virtual_Space_Bsp
    ELSE IF layout = "monocle" THEN Virtual_Space_Monocle
    ELSE IF layout = "float" THEN Virtual_Space_Float
    ELSE "none"

ActivateSpaceLayout(s0, layout, ord, split) ==
    LET s == Begin(s0, "layout", layout)
        sp == ActiveSpaceOf(s)
        s1 == AXLibActiveSpace(s)
        s2 == AcquireVirtualSpace(s1, sp)
        NewLayout == LayoutFromString(layout)
        s3 == [FreeNodeTree(s2, sp) EXCEPT !.vs[sp].Tree = NoNode, !.vs[sp].Mode = NewLayout]
        s4 == IF ShouldDeserializeVirtualSpace(s3, sp)
              THEN CreateDeserializedWindowTreeForSpace(s3, sp, ord, split)
              ELSE CreateWindowTreeForSpace(s3, sp, ord, split)
    IN  IF SpaceType(sp) # kCGSSpaceUser \/ NewLayout = "none"
        THEN SpaceFree(Out(s1, "space_free", NoNode, NoNode, NoNode), sp)
        ELSE IF s2.vs[sp].Mode = NewLayout
        THEN VspaceRelease(Out(s2, "vspace_release", NoNode, NoNode, NoNode), sp)
        ELSE VspaceRelease(Out(s4, "rebuilt", NoNode, NoNode, NoNode), sp)

\* The prologue of the commands that work on any tiling workspace.
TilingOnly(s, body(_, _)) ==
    LET sp == ActiveSpaceOf(s)
        s1 == AXLibActiveSpace(s)
        s2 == AcquireVirtualSpace(s1, sp)
    IN  IF SpaceType(sp) # kCGSSpaceUser
        THEN SpaceFree(Out(s1, "space_free", NoNode, NoNode, NoNode), sp)
        ELSE IF s2.vs[sp].Mode = Virtual_Space_Float
        THEN VspaceRelease(Out(s2, "vspace_release", NoNode, NoNode, NoNode), sp)
        ELSE VspaceRelease(body(s2, sp), sp)

\* CreateNodeRegion, CreateNodeRegionRecursive, ApplyNodeRegion(.., false).
RefreshTree(s, sp) ==
    LET s1 == RecomputeAll(s, sp)
    IN  IF s.vs[sp].Tree = NoNode THEN s
        ELSE ApplyNodeRegion(s1, sp, s1.vs[sp].Tree, FALSE)

\* A faulty toggle: switching the offset off discards the stored values.
ToggleSpace_Discard(s0, op) ==
    LET body(s, sp) ==
            IF op = "offset"
            THEN Out(RefreshTree([s EXCEPT !.vs[sp].OffsetOn = ~@,
                                           !.vs[sp].StoredOffset =
                                               IF s.vs[sp].OffsetOn
                                               THEN [Top |-> 0, Bottom |-> 0, Left |-> 0,
                                                     Right |-> 0, Gap |-> 0]
                                               ELSE @], sp),
                     "toggled", NoNode, NoNode, NoNode)
            ELSE Out(s, "vspace_release", NoNode, NoNode, NoNode)
    IN  TilingOnly(Begin(s0, "toggle_space", op), body)

ToggleSpace(s0, op) ==
    LET body(s, sp) ==
            IF op = "offset"
            THEN Out(RefreshTree([s EXCEPT !.vs[sp].OffsetOn = ~@], sp),
                     "toggled", NoNode, NoNode, NoNode)
            ELSE Out(s, "vspace_release", NoNode, NoNode, NoNode)
    IN  TilingOnly(Begin(s0, "toggle_space", op), body)

\* A faulty padding command: every side is tested and changed on its own.
AdjustSpacePadding_PerSide(s0, op) ==
    LET body(s, sp) ==
            LET o == s.vs[sp].StoredOffset
                Delta == IF op = "dec" THEN 0 - s.cvar.padding_step_size
                         ELSE s.cvar.padding_step_size
                side(c) == IF c + Delta >= 0 THEN c + Delta ELSE c
                s1 == [s EXCEPT !.vs[sp].StoredOffset =
                          [o EXCEPT !.Top = side(@), !.Bottom = side(@),
                                    !.Left = side(@), !.Right = side(@)]]
            IN  Out(RefreshTree(s1, sp), "applied", NoNode, NoNode, NoNode)
    IN  TilingOnly(Begin(s0, "padding", op), body)

AdjustSpacePadding(s0, op) ==
    LET body(s, sp) ==
            LET o == s.vs[sp].StoredOffset
                Delta == IF op = "dec" THEN 0 - s.cvar.padding_step_size
                         ELSE s.cvar.padding_step_size
                ok == /\ o.Top + Delta >= 0 /\ o.Bottom + Delta >= 0
                      /\ o.Left + Delta >= 0 /\ o.Right + Delta >= 0
                s1 == IF ok
                      THEN [s EXCEPT !.vs[sp].StoredOffset =
                               [o EXCEPT !.Top = @ + Delta, !.Bottom = @ + Delta,
                                         !.Left = @ + Delta, !.Right = @ + Delta]]
                      ELSE s
            IN  Out(RefreshTree(s1, sp), IF ok THEN "applied" ELSE "refused",
                    NoNode, NoNode, NoNode)
    IN  TilingOnly(Begin(s0, "padding", op), body)

\* A faulty gap command: the kind of the active space is not looked at.
AdjustSpaceGap_AnySpace(s0, op) ==
    LET s == Begin(s0, "gap", op)
        sp == ActiveSpaceOf(s)
        s2 == AcquireVirtualSpace(AXLibActiveSpace(s), sp)
        Delta == IF op = "dec" THEN 0 - s.cvar.gap_step_size ELSE s.cvar.gap_step_size
        ok == s.vs[sp].StoredOffset.Gap + Delta >= 0
        s3 == IF ok THEN [s2 EXCEPT !.vs[sp].StoredOffset.Gap = @ + Delta] ELSE s2
    IN  VspaceRelease(Out(RefreshTree(s3, sp), IF ok THEN "applied" ELSE "refused",
                          NoNode, NoNode, NoNode), sp)

\* A faulty gap command: the mode of the workspace is not looked at.
AdjustSpaceGap_AnyMode(s0, op) ==
    LET s == Begin(s0, "gap", op)
        sp == ActiveSpaceOf(s)
        s1 == AXLibActiveSpace(s)
        s2 == AcquireVirtualSpace(s1, sp)
        Delta == IF op = "dec" THEN 0 - s.cvar.gap_step_size ELSE s.cvar.gap_step_size
        ok == s.vs[sp].StoredOffset.Gap + Delta >= 0
        s3 == IF ok THEN [s2 EXCEPT !.vs[sp].StoredOffset.Gap = @ + Delta] ELSE s2
    IN  IF SpaceType(sp) # kCGSSpaceUser
        THEN SpaceFree(Out(s1, "space_free", NoNode, NoNode, NoNode), sp)
        ELSE VspaceRelease(Out(RefreshTree(s3, sp), IF ok THEN "applied" ELSE "refused",
                               NoNode, NoNode, NoNode), sp)

AdjustSpaceGap(s0, op) ==
    LET body(s, sp) ==
            LET o == s.vs[sp].StoredOffset
                Delta == IF op = "dec" THEN 0 - s.cvar.gap_step_size
                         ELSE s.cvar.gap_step_size
                ok == o.Gap + Delta >= 0
                s1 == IF ok THEN [s EXCEPT !.vs[sp].StoredOffset.Gap = @ + Delta] ELSE s
            IN  Out(RefreshTree(s1, sp), IF ok THEN "applied" ELSE "refused",
                    NoNode, NoNode, NoNode)
    IN  TilingOnly(Begin(s0, "gap", op), body)


\* ------------------------------------------------- Serialize and Deserialize
\* The persisted form of a tree: its nodes in pre-order, each with Split,
\* Ratio and whether it is a leaf.
RECURSIVE SerializeNodeToBuffer(_, _)
SerializeNodeToBuffer(n, id) ==
    IF id = NoNode THEN << >>
    ELSE <<[Split |-> n[id].Split, Ratio |-> n[id].Ratio, Leaf |-> IsLeafNode(n, id)]>>
         \o SerializeNodeToBuffer(n, n[id].Left) \o SerializeNodeToBuffer(n, n[id].Right)

\* Builds the subtree that starts at buf[pos] below parent; the leaves hold
\* no window yet.
RECURSIVE DeserializeNode(_, _, _, _)
DeserializeNode(n, buf, pos, parent) ==
    LET id == AllocNode(n)
        e == buf[pos]
        n1 == [n EXCEPT ![id] = [CreateLeafNode(parent, NoWindow, e.Ratio)
                                   EXCEPT !.Split = e.Split]]
        l == DeserializeNode(n1, buf, pos + 1, id)
        r == DeserializeNode(l.n, buf, l.pos, id)
    IN  IF e.Leaf THEN [n |-> n1, id |-> id, pos |-> pos + 1]
        ELSE [n |-> [r.n EXCEPT ![id].Left = l.id, ![id].Right = r.id],
              id |-> id, pos |-> r.pos]

DeserializeNodeFromBuffer(n, buf) ==
    IF Len(buf) = 0 THEN [n |-> n, id |-> NoNode, pos |-> 1]
    ELSE DeserializeNode(n, buf, 1, NoNode)

\* fopen(Op, "w") succeeds or not (canWrite).
SerializeDesktop(s0, canWrite) ==
    LET body(s, sp) ==
            IF canWrite
            THEN Out(Ev([s EXCEPT !.file = [present |-> TRUE,
                                            tree |-> SerializeNodeToBuffer(s.node, s.vs[sp].Tree)]],
                        "fwrite", 0, NoRegion),
                     "written", NoNode, NoNode, NoNode)
            ELSE Out(Ev(s, "c_log", 0, NoRegion), "not_written", NoNode, NoNode, NoNode)
    IN  BspOnly(Begin(s0, "serialize", ""), body)

DeserializeBody(s, sp, ord, split) ==
    LET s1 == FreeNodeTree(s, sp)
        d == DeserializeNodeFromBuffer(s1.node, s.file.tree)
        s2 == [s1 EXCEPT !.node = d.n, !.vs[sp].Tree = d.id]
    IN  IF ~s.file.present
        THEN Out(Ev(s, "c_log", 0, NoRegion), "not_read", NoNode, NoNode, NoNode)
        ELSE Out(CreateDeserializedWindowTreeForSpace(s2, sp, ord, split),
                 "read", NoNode, NoNode, NoNode)

DeserializeDesktop(s0, ord, split) ==
    LET s == Begin(s0, "deserialize", "")
        sp == ActiveSpaceOf(s)
        s1 == AXLibActiveSpace(s)
        s2 == AcquireVirtualSpace(s1, sp)
    IN  IF SpaceType(sp) # kCGSSpaceUser
        THEN SpaceFree(Out(s1, "space_free", NoNode, NoNode, NoNode), sp)
        ELSE IF s2.vs[sp].Mode # Virtual_Space_Bsp
        THEN VspaceRelease(Out(s2, "vspace_release", NoNode, NoNode, NoNode), sp)
        ELSE VspaceRelease(DeserializeBody(s2, sp, ord, split), sp)

\* --------------------------------------------------------------- GridLayout
\* The display a rectangle lies on: the one that holds its centre.
DisplayOfRect(s, r) ==
    IF s.env.displays > 1 /\ r.X + (r.Width \div 2) >= DisplayBounds(1).X THEN 1 ELSE 0

\* ConstrainRegion: the display's bounds less the active padding of the
\* workspace shown on it.
ConstrainRegion(s, sp) == FullRegion(sp, s.vs[sp])

\* grid: the six numbers of the token (rows, cols, x, y, width, height), or
\* a token that does not parse.
GridRegion(Region, grid) ==
    LET GridRows == grid.f[1]
        GridCols == grid.f[2]
        WinX == IF grid.f[3] >= GridCols THEN GridCols - 1 ELSE grid.f[3]
        WinY == IF grid.f[4] >= GridRows THEN GridRows - 1 ELSE grid.f[4]
        w1 == IF grid.f[5] <= 0 THEN 1 ELSE grid.f[5]
        h1 == IF grid.f[6] <= 0 THEN 1 ELSE grid.f[6]
        WinWidth == IF w1 > GridCols - WinX THEN GridCols - WinX ELSE w1
        WinHeight == IF h1 > GridRows - WinY THEN GridRows - WinY ELSE h1
        CellWidth == Region.Width \div GridCols
        CellHeight == Region.Height \div GridRows
    IN  [X |-> (Region.X + Region.Width) - CellWidth * (GridCols - WinX),
         Y |-> (Region.Y + Region.Height) - CellHeight * (GridRows - WinY),
         Width |-> CellWidth * WinWidth, Height |-> CellHeight * WinHeight]

GridLayout(s0, grid) ==
    LET s == Begin(s0, "grid", "")
        Window == GetFocusedWindow(s)
        m == DisplayOfRect(s, s.win[Window].Rect)
        sp == s.env.monActive[m]
        s1 == AXLibActiveSpaceOfMonitor(s, m)
        s2 == AcquireVirtualSpace(s1, sp)
    IN  IF Window = NoWindow THEN Out(s, "out", NoNode, NoNode, NoNode)
        ELSE IF ~s.win[Window].Float /\ s2.vs[sp].Mode # Virtual_Space_Float
        THEN VspaceRelease(Out(s2, "space_free", NoNode, NoNode, NoNode), sp)
        ELSE IF ~grid.ok
        THEN VspaceRelease(Out(s2, "no_parse", NoNode, NoNode, NoNode), sp)
        ELSE VspaceRelease(Out(SetWindowRect(s2, Window,
                                             GridRegion(ConstrainRegion(s2, sp), grid)),
                               "placed", NoNode, NoNode, NoNode), sp)

\* ------------------------------------------------------------------ queries
WriteToSocket(s, value) == Ev(s, "reply", value, NoRegion)

QueryFocusedDesktop(s) ==
    LET sp == ActiveSpaceOf(s)
    IN  WriteToSocket(AXLibDestroySpace(AXLibActiveSpace(s), sp), sp)

QueryFocusedVirtualSpaceMode(s) ==
    LET sp == ActiveSpaceOf(s)
        s1 == AcquireVirtualSpace(AXLibActiveSpace(s), sp)
    IN  WriteToSocket(VspaceRelease(s1, sp), 0)

\* The space descriptor is not destroyed here.
QueryWindowsForActiveSpace(s) ==
    WriteToSocket(AXLibActiveSpace(s), 0)

QueryDesktop(s0, op) ==
    LET s == Begin(s0, "query_desktop", op)
    IN  IF op = "id" THEN Out(QueryFocusedDesktop(s), "id", NoNode, NoNode, NoNode)
        ELSE IF op = "mode" THEN Out(QueryFocusedVirtualSpaceMode(s), "mode", NoNode, NoNode, NoNode)
        ELSE IF op = "windows"
        THEN Out(QueryWindowsForActiveSpace(s), "windows", NoNode, NoNode, NoNode)
        ELSE Out(s, "out", NoNode, NoNode, NoNode)

QueryFocusedMonitor(s) ==
    LET sp == ActiveSpaceOf(s)
    IN  WriteToSocket(AXLibDestroySpace(AXLibActiveSpace(s), sp), SpaceMonitor(sp) + 1)

QueryMonitor(s0, op) ==
    LET s == Begin(s0, "query_monitor", op)
    IN  IF op = "id" THEN Out(QueryFocusedMonitor(s), "id", NoNode, NoNode, NoNode)
        ELSE IF op = "count"
        THEN Out(WriteToSocket(s, s.env.displays), "count", NoNode, NoNode, NoNode)
        ELSE Out(s, "out", NoNode, NoNode, NoNode)

QueryFocusedWindowFloat(s) ==
    LET Window == GetFocusedWindow(s)
    IN  IF Window = NoWindow THEN WriteToSocket(s, 0 - 1)
        ELSE WriteToSocket(s, IF s.win[Window].Float THEN 1 ELSE 0)

QueryWindow(s0, op) ==
    LET s == Begin(s0, "query_window", op)
    IN  IF op = "float" THEN Out(QueryFocusedWindowFloat(s), "float", NoNode, NoNode, NoNode)
        ELSE Out(s, "out", NoNode, NoNode, NoNode)


\* ------------------------------------------- sending a window somewhere else
\* NormalizeWindowRect: the window's rectangle carried from display src to
\* display dst.  The offset is scaled only when the source is the larger
\* display, the size always.
\* A faulty normalization: the window's global position is taken for its
\* offset from the source display's edge.
NormalizeWindowRect_Global(r, src, dst) ==
    LET S == DisplayBounds(src)
        D == DisplayBounds(dst)
    IN  [X |-> IF S.Width > D.Width THEN (r.X * D.Width) \div S.Width + D.X
               ELSE r.X + D.X,
         Y |-> IF S.Height > D.Height THEN (r.Y * D.Height) \div S.Height + D.Y
               ELSE r.Y + D.Y,
         Width |-> (r.Width * D.Width) \div S.Width,
         Height |-> (r.Height * D.Height) \div S.Height]

NormalizeWindowRect(r, src, dst) ==
    LET S == DisplayBounds(src)
        D == DisplayBounds(dst)
        OffsetX == r.X - S.X
        OffsetY == r.Y - S.Y
    IN  [X |-> IF S.Width > D.Width THEN (OffsetX * D.Width) \div S.Width + D.X
               ELSE OffsetX + D.X,
         Y |-> IF S.Height > D.Height THEN (OffsetY * D.Height) \div S.Height + D.Y
               ELSE OffsetY + D.Y,
         Width |-> (r.Width * D.Width) \div S.Width,
         Height |-> (r.Height * D.Height) \div S.Height]

\* AXLibCGSSpaceIDFromDesktopID: the desktops that exist.
DesktopExists(s, d) == d \in Spaces /\ SpaceMonitor(d) < AXLibDisplayCount(s)

AXLibSpaceMoveWindow(s, sp, w) == Ev([s EXCEPT !.win[w].Space = sp], "move", w, NoRegion)

\* Focus goes to the first other window left on the source space.
RetainFocus(s, sp, w, ord) ==
    LET ws == SelectSeq(VisibleWindows(s, sp, TRUE, ord), LAMBDA x : x # w)
    IN  IF Len(ws) = 0 THEN s ELSE AXLibSetFocusedWindow(s, ws[1])

\* if (ValidWindow) { acquire; untile; release }
UntileIfValid(s, sp, w, valid) ==
    IF valid
    THEN ReleaseVirtualSpace(UntileWindowFromSpace(AcquireVirtualSpace(s, sp), sp, w), sp)
    ELSE s

TileIfValid(s, sp, w, valid, split) ==
    IF valid
    THEN ReleaseVirtualSpace(TileWindowOnSpace(AcquireVirtualSpace(s, sp), sp, w, split), sp)
    ELSE s

Return(s, success) == Ev(s, "return", IF success THEN 1 ELSE 0, NoRegion)

\* A faulty send: the window is untiled before the destination is checked.
SendWindowToDesktopOf_Eager(s, Window, op, ord, split) ==
    LET relative == op \in {"prev", "next"}
        Space == IF relative THEN s.win[Window].Space ELSE ActiveSpaceOf(s)
        s1 == IF relative THEN Ev(s, "window_space", Space, NoRegion) ELSE AXLibActiveSpace(s)
        Destination == IF op = "prev" THEN Space - 1
                       ELSE IF op = "next" THEN Space + 1
                       ELSE ParseNumber(op)
        ValidWindow == ~s.win[Window].Float /\ IsWindowValid(s, Window)
        s2 == UntileIfValid(s1, Space, Window, ValidWindow)
        warn(st, exit) == Return(SpaceFree(Out(Ev(st, "c_log", 0, NoRegion), exit,
                                               NoNode, NoNode, NoNode), Space), FALSE)
    IN  IF SpaceType(Space) # kCGSSpaceUser
        THEN Return(SpaceFree(Out(s1, "space_free", NoNode, NoNode, NoNode), Space), ~relative)
        ELSE IF ~relative /\ Destination < 0 THEN warn(s2, "no_parse")
        ELSE IF Destination = Space THEN warn(s2, "same_desktop")
        ELSE IF ~DesktopExists(s, Destination) THEN warn(s2, "no_desktop")
        ELSE Return(SpaceFree(Out(s2, "moved", NoNode, NoNode, NoNode), Space), TRUE)

\* SendWindowToDesktop(Window, Op).
SendWindowToDesktopOf(s, Window, op, ord, split) ==
    LET relative == op \in {"prev", "next"}
        Space == IF relative THEN s.win[Window].Space ELSE ActiveSpaceOf(s)
        s1 == IF relative THEN Ev(s, "window_space", Space, NoRegion) ELSE AXLibActiveSpace(s)
        SourceMonitor == SpaceMonitor(Space)
        Destination == IF op = "prev" THEN Space - 1
                       ELSE IF op = "next" THEN Space + 1
                       ELSE ParseNumber(op)
        DestinationMonitor == SpaceMonitor(Destination)
        ValidWindow == ~s.win[Window].Float /\ IsWindowValid(s, Window)
        s2 == UntileIfValid(s1, Space, Window, ValidWindow)
        s3 == RetainFocus(AXLibSpaceMoveWindow(s2, Destination, Window), Space, Window, ord)
        s4 == SetWindowRect(s3, Window,
                            NormalizeWindowRect(s3.win[Window].Rect, SourceMonitor,
                                                DestinationMonitor))
        active == s.env.monActive[DestinationMonitor]
        s5 == AXLibActiveSpaceOfMonitor(s4, DestinationMonitor)
        s6 == IF active = Destination THEN TileIfValid(s5, active, Window, TRUE, split) ELSE s5
        warn(st, exit) == Return(SpaceFree(Out(Ev(st, "c_log", 0, NoRegion), exit,
                                               NoNode, NoNode, NoNode), Space), FALSE)
    IN  IF SpaceType(Space) # kCGSSpaceUser
        THEN Return(SpaceFree(Out(s1, "space_free", NoNode, NoNode, NoNode), Space), ~relative)
        ELSE IF ~relative /\ Destination < 0 THEN warn(s1, "no_parse")
        ELSE IF Destination = Space THEN warn(s1, "same_desktop")
        ELSE IF ~DesktopExists(s, Destination) THEN warn(s1, "no_desktop")
        ELSE IF DestinationMonitor = SourceMonitor
        THEN Return(SpaceFree(Out(s3, "moved", NoNode, NoNode, NoNode), Space), TRUE)
        ELSE IF ~ValidWindow
        THEN Return(SpaceFree(Out(s4, "moved_floating", NoNode, NoNode, NoNode), Space), TRUE)
        ELSE Return(SpaceFree(AXLibDestroySpace(Out(s6, "moved_across", NoNode, NoNode, NoNode),
                                                active), Space), TRUE)

SendWindowToDesktop(s0, op, ord, split) ==
    LET s == Begin(s0, "send_to_desktop", op)
        Window == GetFocusedWindow(s)
    IN  IF Window = NoWindow THEN Out(s, "out", NoNode, NoNode, NoNode)
        ELSE SendWindowToDesktopOf(s, Window, op, ord, split)

SendWindowToMonitor(s0, op, ord, split) ==
    LET s == Begin(s0, "send_to_monitor", op)
        Window == GetFocusedWindow(s)
        Space == ActiveSpaceOf(s)
        s1 == AXLibActiveSpace(s)
        SourceMonitor == SpaceMonitor(Space)
        parsed == ParseNumber(op)
        DestinationMonitor == IF op = "prev" THEN SourceMonitor - 1
                              ELSE IF op = "next" THEN SourceMonitor + 1
                              ELSE parsed - 1
        DestinationSpace == s.env.monActive[DestinationMonitor]
        s2 == AXLibActiveSpaceOfMonitor(s1, DestinationMonitor)
        ValidWindow == ~s.win[Window].Float /\ IsWindowValid(s, Window)
        s3 == UntileIfValid(s2, Space, Window, ValidWindow)
        s4 == RetainFocus(AXLibSpaceMoveWindow(s3, DestinationSpace, Window), Space, Window, ord)
        s5 == SetWindowRect(s4, Window,
                            NormalizeWindowRect(s4.win[Window].Rect, SourceMonitor,
                                                DestinationMonitor))
        s6 == TileIfValid(s5, DestinationSpace, Window, ValidWindow, split)
    IN  IF Window = NoWindow THEN Out(s, "out", NoNode, NoNode, NoNode)
        ELSE IF SpaceType(Space) # kCGSSpaceUser
        THEN SpaceFree(Out(s1, "space_free", NoNode, NoNode, NoNode), Space)
        ELSE IF op \notin {"prev", "next"} /\ parsed < 0
        THEN SpaceFree(Out(Ev(s1, "c_log", 0, NoRegion), "no_parse", NoNode, NoNode, NoNode),
                       Space)
        ELSE IF ~(DestinationMonitor \in Monitors /\ DestinationMonitor < AXLibDisplayCount(s))
        THEN SpaceFree(Out(Ev(s1, "c_log", 0, NoRegion), "no_monitor", NoNode, NoNode, NoNode),
                       Space)
        ELSE IF SpaceType(DestinationSpace) # kCGSSpaceUser
        THEN SpaceFree(AXLibDestroySpace(Out(s2, "dest_space_free", NoNode, NoNode, NoNode),
                                         DestinationSpace), Space)
        ELSE SpaceFree(AXLibDestroySpace(Out(s6, "moved", NoNode, NoNode, NoNode),
                                         DestinationSpace), Space)


\* ------------------------------------------------------------ initial states
NoFile == [present |-> FALSE, tree |-> << >>]

DefaultOffset == [Top |-> 20, Bottom |-> 20, Left |-> 20, Right |-> 20, Gap |-> 10]

DefaultCVars ==
    [bsp_insertion_point |-> NoWindow,
     bsp_split_ratio |-> F32Tenths(5),
     window_focus_cycle |-> Window_Focus_Cycle_None,
     monitor_focus_cycle |-> FALSE,
     padding_step_size |-> 20,
     gap_step_size |-> 10]

\* The plugin right after start: nWindows windows lie untiled on space 1 of
\* a single display, every workspace is an empty BSP workspace.
Started(nWindows) ==
    [node |-> [i \in 1..(2 * nWindows + 1) |-> FreeNode],
     vs |-> [sp \in Spaces |->
                [Mode |-> Virtual_Space_Bsp, Tree |-> NoNode, OffsetOn |-> TRUE,
                 StoredOffset |-> DefaultOffset, Acquired |-> 0]],
     win |-> [w \in 1..nWindows |->
                [Space |-> 1, Float |-> FALSE, Sticky |-> FALSE, Fullscreen |-> FALSE,
                 Rect |-> [X |-> 40 * w, Y |-> 30 * w, Width |-> 200, Height |-> 150]]],
     focused |-> NoWindow,
     cvar |-> DefaultCVars,
     env |-> [displays |-> 1, activeMon |-> 0,
              monActive |-> [m \in Monitors |-> IF m = 0 THEN 1 ELSE 5]],
     file |-> NoFile,
     log |-> << >>,
     last |-> NoCommand,
     aborted |-> FALSE]

\* A window is created and tiled while the window at is the insertion point.
TileAt(s, sp, w, at, split) ==
    TileWindowOnSpace([s EXCEPT !.cvar.bsp_insertion_point = at], sp, w, split)

\* The windows of a script tiled one after the other on space sp; a script
\* is a sequence of << window, insertion point, split >>.
RECURSIVE TileScript(_, _, _, _)
TileScript(s, sp, script, i) ==
    IF i > Len(script) THEN s
    ELSE TileScript(TileAt(s, sp, script[i][1], script[i][2], script[i][3]),
                    sp, script, i + 1)

\* The state between two commands: the window w has the focus and is the
\* insertion point, nothing is logged.
Settled(s, w, ratio) ==
    [s EXCEPT !.focused = w, !.cvar.bsp_insertion_point = w,
              !.cvar.bsp_split_ratio = ratio, !.log = << >>, !.last = NoCommand]

\* BSP trees over three windows, by the order and the places of tiling.
Scripts ==
    { << <<1, 0, Split_Vertical>>, <<2, 1, Split_Vertical>>, <<3, 2, Split_Horizontal>> >>,
      << <<1, 0, Split_Horizontal>>, <<2, 1, Split_Horizontal>>, <<3, 2, Split_Vertical>> >>,
      << <<1, 0, Split_Vertical>>, <<2, 1, Split_Vertical>>, <<3, 1, Split_Horizontal>> >>,
      << <<1, 0, Split_Vertical>>, <<2, 1, Split_Horizontal>> >> }

StepRatios == {F32Tenths(1), F32Tenths(5)}

BspStates ==
    {Settled(TileScript(Started(MaxWindows), 1, sc, 1), w, r) :
        sc \in Scripts, w \in Windows, r \in StepRatios}

\* The same windows in a monocle workspace.
MonocleStates ==
    {Settled(TileScript([Started(MaxWindows) EXCEPT !.vs[1].Mode = Virtual_Space_Monocle],
                        1, sc, 1), w, r) :
        sc \in Scripts, w \in Windows, r \in StepRatios}

\* Window 3 floats: it lies on the space and has no node.
FloatingStates ==
    {Settled(TileScript([Started(MaxWindows) EXCEPT !.vs[1].Mode = m,
                                                   !.win[3].Float = TRUE],
                        1, << <<1, 0, Split_Vertical>>, <<2, 1, Split_Vertical>> >>, 1),
             w, r) :
        m \in {Virtual_Space_Bsp, Virtual_Space_Monocle}, w \in Windows, r \in StepRatios}

InitFrom(s) ==
    /\ node = s.node
    /\ vs = s.vs
    /\ win = s.win
    /\ focused = s.focused
    /\ cvar = s.cvar
    /\ env = s.env
    /\ file = s.file
    /\ log = s.log
    /\ last = s.last
    /\ aborted = s.aborted
    /\ steps = 0

\* One command: the state goes to the state the handler returns.
Step(t) ==
    /\ ~aborted
    /\ steps < MaxSteps
    /\ node' = t.node
    /\ vs' = t.vs
    /\ win' = t.win
    /\ focused' = t.focused
    /\ cvar' = t.cvar
    /\ env' = t.env
    /\ file' = t.file
    /\ log' = t.log
    /\ last' = t.last
    /\ aborted' = t.aborted
    /\ steps' = steps + 1

\* --------------------------------------------------------------- actions
DirTokens == Directions \cup {"prev", "next", "biggest", "up"}
DegreeTokens == {"90", "180", "270", "45"}
AxisTokens == {"vertical", "horizontal", "diagonal"}

\* The orders in which the system may list the windows: by rising and by
\* falling id.
Orders == {[i \in 1..Len(win) |-> i], [i \in 1..Len(win) |-> Len(win) + 1 - i]}

\* The user gives a window of the active space the focus; the plugin's focus
\* handler makes it the insertion point.
WindowFocused ==
    /\ ~aborted
    /\ \E w \in DOMAIN win :
        /\ win[w].Space = env.monActive[env.activeMon]
        /\ ~(focused = w /\ cvar.bsp_insertion_point = w /\ last = NoCommand)
        /\ focused' = w
        /\ cvar' = [cvar EXCEPT !.bsp_insertion_point = w]
    /\ log' = << >>
    /\ last' = NoCommand
    /\ UNCHANGED << node, vs, win, env, file, aborted, steps >>

DoFocus == \E d \in DirTokens, o \in Orders : Step(FocusWindow(Cur, d, o))
DoSwap == \E d \in DirTokens, o \in Orders : Step(SwapWindow(Cur, d, o))
DoWarp ==
    \E d \in DirTokens, o \in Orders, sp \in {Split_Vertical, Split_Horizontal} :
        Step(WarpWindow(Cur, d, o, sp))
DoAdjustRatio == \E d \in DirTokens, o \in Orders : Step(AdjustWindowRatio(Cur, d, o))
DoFullscreenZoom == Step(ToggleWindowFullscreenZoom(Cur))
DoParentZoom == Step(ToggleWindowParentZoom(Cur))
DoToggleSplit == Step(ToggleWindowSplitMode(Cur))
DoRotate == \E d \in DegreeTokens : Step(RotateWindowTree(Cur, d))
DoMirror == \E a \in AxisTokens : Step(MirrorWindowTree(Cur, a))
DoEqualize == Step(EqualizeWindowTree(Cur))

\* The commands that work on the tree of the active workspace.
InitTree == \E s \in BspStates \cup MonocleStates \cup FloatingStates : InitFrom(s)

NextTree ==
    \/ WindowFocused
    \/ DoFocus
    \/ DoSwap
    \/ DoWarp
    \/ DoAdjustRatio
    \/ DoFullscreenZoom
    \/ DoParentZoom
    \/ DoToggleSplit
    \/ DoRotate
    \/ DoMirror
    \/ DoEqualize

SpecTree == InitTree /\ [][NextTree]_vars

\* Only the two zoom toggles, on any leaf.
NextZoom ==
    \/ WindowFocused
    \/ DoFullscreenZoom
    \/ DoParentZoom

SpecZoom == InitTree /\ [][NextZoom]_vars

\* A tree of WideWindows leaves: one leaf to the left of the root and all
\* the others, in a balanced subtree, to its right.
WideWindows == 11

WideScript ==
    << <<1, 0, Split_Vertical>>, <<2, 1, Split_Vertical>>, <<3, 2, Split_Horizontal>>,
       <<4, 2, Split_Vertical>>, <<5, 3, Split_Vertical>>, <<6, 2, Split_Horizontal>>,
       <<7, 4, Split_Horizontal>>, <<8, 3, Split_Horizontal>>, <<9, 5, Split_Horizontal>>,
       <<10, 2, Split_Vertical>>, <<11, 6, Split_Vertical>> >>

\* The insertion point is the lone left leaf, or a leaf of the right subtree.
WideStates ==
    {Settled(TileScript(Started(WideWindows), 1, WideScript, 1), w, r) :
        w \in {1, 2, 7, WideWindows}, r \in StepRatios}

InitWide == \E s \in WideStates : InitFrom(s)

NextWide ==
    \/ DoSwap
    \/ DoWarp
    \/ DoAdjustRatio
    \/ DoToggleSplit
    \/ DoRotate
    \/ DoMirror
    \/ DoEqualize

SpecWide == InitWide /\ [][NextWide]_vars

\* ------------------------------------------------- the whole interpreter
RatioTokens == {F32Tenths(1), F32Tenths(3), Unit}
ToggleTokens == {"float", "sticky", "native-fullscreen", "fullscreen", "parent", "split", "zoom"}
InsertionTokens == Directions \cup {"cancel", "up"}
LayoutTokens == {"bsp", "monocle", "float", "grid"}
StepTokens == {"inc", "dec"}
GridTokens ==
    {[ok |-> FALSE, f |-> <<0, 0, 0, 0, 0, 0>>],
     [ok |-> TRUE, f |-> <<2, 2, 0, 0, 1, 1>>],
     [ok |-> TRUE, f |-> <<2, 3, 5, 5, 0, 9>>]}
DesktopTokens == {"prev", "next", "1", "2", "3", "5", "x"}
MonitorTokens == {"prev", "next", "1", "2", "x"}
Splits == {Split_Vertical, Split_Horizontal}

DoFocusMonitor == \E op \in MonitorTokens, o \in Orders : Step(FocusMonitor(Cur, op, o))
DoTemporaryRatio == \E r \in RatioTokens : Step(TemporaryRatio(Cur, r))
DoToggleWindow == \E ty \in ToggleTokens, sp \in Splits : Step(ToggleWindow(Cur, ty, sp))
DoUseInsertionPoint == \E d \in InsertionTokens : Step(UseInsertionPoint(Cur, d))
DoActivateSpaceLayout ==
    \E l \in LayoutTokens, o \in Orders, sp \in Splits : Step(ActivateSpaceLayout(Cur, l, o, sp))
DoToggleSpace == \E op \in {"offset", "gap"} : Step(ToggleSpace(Cur, op))
DoAdjustSpacePadding == \E op \in StepTokens : Step(AdjustSpacePadding(Cur, op))
DoAdjustSpaceGap == \E op \in StepTokens : Step(AdjustSpaceGap(Cur, op))
DoSendWindowToDesktop ==
    \E op \in DesktopTokens, o \in Orders, sp \in Splits :
        Step(SendWindowToDesktop(Cur, op, o, sp))
DoSendWindowToMonitor ==
    \E op \in MonitorTokens, o \in Orders, sp \in Splits :
        Step(SendWindowToMonitor(Cur, op, o, sp))
DoGridLayout == \E g \in GridTokens : Step(GridLayout(Cur, g))
DoSerializeDesktop == \E canWrite \in BOOLEAN : Step(SerializeDesktop(Cur, canWrite))
DoDeserializeDesktop == \E o \in Orders, sp \in Splits : Step(DeserializeDesktop(Cur, o, sp))
DoQueryDesktop == \E op \in {"id", "mode", "windows", "name"} : Step(QueryDesktop(Cur, op))
DoQueryMonitor == \E op \in {"id", "count", "name"} : Step(QueryMonitor(Cur, op))
DoQueryWindow == \E op \in {"float", "size"} : Step(QueryWindow(Cur, op))

\* The situations the plugin is in when a command arrives.
TwoDisplays(s) == [s EXCEPT !.env.displays = 2]
OnSpace(s, w, sp) == [s EXCEPT !.win[w].Space = sp]
Cycle(s, mode) == [s EXCEPT !.cvar.window_focus_cycle = mode]
Viewing(s, sp) == [s EXCEPT !.env.monActive[0] = sp]

\* Windows 1 and 2 on display 0, window 3 alone on display 1.
AcrossDisplays ==
    TileScript(
        TileScript(OnSpace(TwoDisplays(Started(MaxWindows)), 3, 5), 1,
                   << <<1, 0, Split_Vertical>>, <<2, 1, Split_Vertical>> >>, 1),
        5, << <<3, 0, Split_Vertical>> >>, 1)

\* All the windows on the fullscreen space, none of them tiled.
OnFullscreenSpace ==
    Viewing([Started(MaxWindows) EXCEPT
                !.win = [w \in DOMAIN @ |-> [@[w] EXCEPT !.Space = 3]]], 3)

TreeOf(script) == TileScript(Started(MaxWindows), 1, script, 1)
ScriptOne == << <<1, 0, Split_Vertical>>, <<2, 1, Split_Vertical>>, <<3, 2, Split_Horizontal>> >>
ScriptTwo == << <<1, 0, Split_Horizontal>>, <<2, 1, Split_Horizontal>>, <<3, 2, Split_Vertical>> >>
ScriptShort == << <<1, 0, Split_Vertical>>, <<2, 1, Split_Horizontal>> >>

Situations ==
    { Settled(TreeOf(ScriptTwo), 1, F32Tenths(5)),
      Settled(Cycle(TreeOf(ScriptShort), Window_Focus_Cycle_Monitor), 1, F32Tenths(5)),
      Settled(TileScript([Started(MaxWindows) EXCEPT !.vs[1].Mode = Virtual_Space_Monocle],
                         1, ScriptOne, 1), 1, F32Tenths(5)),
      Settled(TileScript([Started(MaxWindows) EXCEPT !.win[3].Float = TRUE], 1,
                         ScriptShort, 1), 3, F32Tenths(5)),
      Settled([Started(MaxWindows) EXCEPT !.vs[1].Mode = Virtual_Space_Float], 1,
              F32Tenths(5)),
      Settled(Cycle(AcrossDisplays, Window_Focus_Cycle_All), 1, F32Tenths(5)),
      Settled(Cycle(TwoDisplays(OnFullscreenSpace), Window_Focus_Cycle_All), 1, F32Tenths(5)),
      Settled(Viewing(TreeOf(ScriptOne), 4), NoWindow, F32Tenths(5)),
      Settled(Viewing(TreeOf(ScriptOne), 2), NoWindow, F32Tenths(5)) }

Init == \E s \in Situations : InitFrom(s)

Next ==
    \/ WindowFocused
    \/ DoFocus
    \/ DoSwap
    \/ DoWarp
    \/ DoAdjustRatio
    \/ DoRotate
    \/ DoMirror
    \/ DoEqualize
    \/ DoFocusMonitor
    \/ DoTemporaryRatio
    \/ DoToggleWindow
    \/ DoUseInsertionPoint
    \/ DoActivateSpaceLayout
    \/ DoToggleSpace
    \/ DoAdjustSpacePadding
    \/ DoAdjustSpaceGap
    \/ DoSendWindowToDesktop
    \/ DoSendWindowToMonitor
    \/ DoGridLayout
    \/ DoSerializeDesktop
    \/ DoDeserializeDesktop
    \/ DoQueryDesktop
    \/ DoQueryMonitor
    \/ DoQueryWindow

Spec == Init /\ [][Next]_vars

\* ------------------------------------------------ the offset commands alone
\* Workspaces of every mode with configured offsets and step sizes, none of
\* them negative; the offset is active, as it is after start.
ConfiguredOffsets ==
    { DefaultOffset,
      [Top |-> 10, Bottom |-> 30, Left |-> 0, Right |-> 45, Gap |-> 5],
      [Top |-> 0, Bottom |-> 0, Left |-> 0, Right |-> 0, Gap |-> 0] }

OffsetStart(m, o, p, g) ==
    Settled([TileScript([Started(MaxWindows) EXCEPT !.vs[1].Mode = m,
                                                   !.vs[1].StoredOffset = o],
                        1, ScriptShort, 1)
                EXCEPT !.cvar.padding_step_size = p, !.cvar.gap_step_size = g],
            1, F32Tenths(5))

OffsetStates ==
    {OffsetStart(m, o, p, g) : m \in Modes, o \in ConfiguredOffsets,
                               p \in {0, 20}, g \in {0, 10}}

InitOffset == \E s \in OffsetStates : InitFrom(s)

\* One offset command, in runs of up to MaxOffsetSteps commands.
OffsetStep(t) ==
    /\ ~aborted
    /\ steps < MaxOffsetSteps
    /\ node' = t.node
    /\ vs' = t.vs
    /\ win' = t.win
    /\ focused' = t.focused
    /\ cvar' = t.cvar
    /\ env' = t.env
    /\ file' = t.file
    /\ log' = t.log
    /\ last' = t.last
    /\ aborted' = t.aborted
    /\ steps' = steps + 1

OffsetToggle == \E op \in {"offset", "gap"} : OffsetStep(ToggleSpace(Cur, op))
OffsetPadding == \E op \in StepTokens : OffsetStep(AdjustSpacePadding(Cur, op))
OffsetGap == \E op \in StepTokens : OffsetStep(AdjustSpaceGap(Cur, op))

NextOffset ==
    \/ OffsetToggle
    \/ OffsetPadding
    \/ OffsetGap

SpecOffset == InitOffset /\ [][NextOffset]_vars

\* ------------------------------------------ the float and sticky toggles
\* Every window starts tiled: neither floating nor sticky.
InitFlags == \E s \in BspStates \cup MonocleStates : InitFrom(s)

FlagsFloat == \E sp \in Splits : Step(ToggleWindowFloat(Cur, sp))
FlagsSticky == \E sp \in Splits : Step(ToggleWindowSticky(Cur, sp))

NextFlags ==
    \/ WindowFocused
    \/ FlagsFloat
    \/ FlagsSticky

SpecFlags == InitFlags /\ [][NextFlags]_vars

\* ------------------------------------------- floating windows sent across
\* Two displays; windows 1 and 2 are tiled on display 0, window 3 floats on
\* the active space of one of the displays, at one of a few rectangles
\* (given relative to its display), and has the focus.
FloatingRects ==
    { [X |-> 40, Y |-> 30, Width |-> 200, Height |-> 150],
      [X |-> 0, Y |-> 0, Width |-> 320, Height |-> 240],
      [X |-> 100, Y |-> 60, Width |-> 120, Height |-> 90] }

NormalizeStart(sp, r) ==
    LET origin == DisplayBounds(SpaceMonitor(sp))
        base == [TwoDisplays(Started(MaxWindows)) EXCEPT
                    !.win[3].Float = TRUE,
                    !.win[3].Space = sp,
                    !.win[3].Rect = [r EXCEPT !.X = @ + origin.X, !.Y = @ + origin.Y],
                    !.env.activeMon = SpaceMonitor(sp)]
    IN  [Settled(TileScript(base, 1, ScriptShort, 1), 3, F32Tenths(5))
            EXCEPT !.cvar.bsp_insertion_point = 1]

NormalizeStates == {NormalizeStart(sp, r) : sp \in {1, 5}, r \in FloatingRects}

InitNormalize == \E s \in NormalizeStates : InitFrom(s)

NextNormalize ==
    \/ WindowFocused
    \/ DoSendWindowToDesktop
    \/ DoSendWindowToMonitor

SpecNormalize == InitNormalize /\ [][NextNormalize]_vars

\* ------------------------------------------------- focus across displays
\* Windows 1 and 2 in a monocle workspace on display 0, window 3 alone on
\* display 1.
AcrossMonocle ==
    TileScript(
        TileScript([OnSpace(TwoDisplays(Started(MaxWindows)), 3, 5)
                        EXCEPT !.vs[1].Mode = Virtual_Space_Monocle], 1,
                   << <<1, 0, Split_Vertical>>, <<2, 1, Split_Vertical>> >>, 1),
        5, << <<3, 0, Split_Vertical>> >>, 1)

\* Display 1 is the active one.
OnSecondDisplay(s) == [s EXCEPT !.env.activeMon = 1]

\* A tree tiled under a split ratio of one tenth: window 1 is a narrow
\* column, windows 2 and 3 beside it are of unequal height.
UnevenTree ==
    TileScript([Started(MaxWindows) EXCEPT !.cvar.bsp_split_ratio = F32Tenths(1)],
               1, ScriptOne, 1)

\* The layouts Focus and FocusMonitor are tried on, each with the windows
\* that may have the focus: on one display, with a second display that is
\* empty, that shows a window, or seen from the second display while the
\* first shows a tree or a fullscreen space.
FocusLayouts ==
    {[st |-> TreeOf(sc), w |-> w] : sc \in {ScriptOne, ScriptTwo}, w \in Windows}
    \cup {[st |-> TileScript([Started(MaxWindows) EXCEPT !.vs[1].Mode = Virtual_Space_Monocle],
                             1, ScriptOne, 1), w |-> w] : w \in Windows}
    \cup {[st |-> UnevenTree, w |-> w] : w \in Windows}
    \cup {[st |-> TwoDisplays(TreeOf(ScriptOne)), w |-> w] : w \in Windows}
    \cup {[st |-> TwoDisplays(TileScript([Started(MaxWindows) EXCEPT
                                             !.vs[1].Mode = Virtual_Space_Monocle],
                                         1, ScriptOne, 1)), w |-> w] : w \in Windows}
    \cup {[st |-> l, w |-> w] : l \in {AcrossDisplays, AcrossMonocle}, w \in {1, 2}}
    \cup {[st |-> OnSecondDisplay(AcrossDisplays), w |-> 3],
          [st |-> OnSecondDisplay(Viewing(AcrossDisplays, 3)), w |-> 3]}

FocusStates ==
    {Settled([Cycle(l.st, m) EXCEPT !.cvar.monitor_focus_cycle = c], l.w, F32Tenths(5)) :
        l \in FocusLayouts,
        m \in {Window_Focus_Cycle_None, Window_Focus_Cycle_Monitor, Window_Focus_Cycle_All},
        c \in BOOLEAN}

InitFocus == \E s \in FocusStates : InitFrom(s)

NextFocus ==
    \/ WindowFocused
    \/ DoFocus
    \/ DoFocusMonitor

SpecFocus == InitFocus /\ [][NextFocus]_vars

\* --------------------------------------------------- runs of zoom toggles
InitZoomRun == \E s \in BspStates : InitFrom(s)

\* One zoom toggle, in runs of up to MaxZoomSteps toggles.
ZoomStep(t) ==
    /\ ~aborted
    /\ steps < MaxZoomSteps
    /\ node' = t.node
    /\ vs' = t.vs
    /\ win' = t.win
    /\ focused' = t.focused
    /\ cvar' = t.cvar
    /\ env' = t.env
    /\ file' = t.file
    /\ log' = t.log
    /\ last' = t.last
    /\ aborted' = t.aborted
    /\ steps' = steps + 1

ZoomFullscreen == ZoomStep(ToggleWindowFullscreenZoom(Cur))
ZoomParent == ZoomStep(ToggleWindowParentZoom(Cur))

NextZoomRun ==
    \/ WindowFocused
    \/ ZoomFullscreen
    \/ ZoomParent

SpecZoomRun == InitZoomRun /\ [][NextZoomRun]_vars

\* ------------------------------------------------ a tree of a single leaf
\* One display; window 1 alone on space 1 and tiled, the others on space 2.
SingleLeaf ==
    TileScript([Started(MaxWindows) EXCEPT
                    !.win = [w \in DOMAIN @ |->
                                IF w = 1 THEN @[w] ELSE [@[w] EXCEPT !.Space = 2]]],
               1, << <<1, 0, Split_Vertical>> >>, 1)

SingleLeafStates ==
    {Settled([Cycle(SingleLeaf, m) EXCEPT !.cvar.monitor_focus_cycle = c], 1, r) :
        m \in {Window_Focus_Cycle_None, Window_Focus_Cycle_Monitor, Window_Focus_Cycle_All},
        c \in BOOLEAN, r \in StepRatios}

InitSingle == \E s \in SingleLeafStates : InitFrom(s)

NextSingle ==
    \/ WindowFocused
    \/ DoFocus
    \/ DoFocusMonitor

SpecSingle == InitSingle /\ [][NextSingle]_vars

\* The same workspaces, the only window sent from desktop to desktop.
NextSend ==
    \/ WindowFocused
    \/ DoSendWindowToDesktop

SpecSend == InitSingle /\ [][NextSend]_vars

\* ------------------------------------------ commands off the user spaces
\* Display 0 shows the fullscreen space with window 1 on it; windows 2 and 3
\* are tiled on display 1.
FullscreenBesideTree ==
    TileScript(
        Viewing([TwoDisplays(Started(MaxWindows)) EXCEPT
                    !.win[1].Space = 3, !.win[2].Space = 5, !.win[3].Space = 5], 3),
        5, << <<2, 0, Split_Vertical>>, <<3, 2, Split_Vertical>> >>, 1)

\* The active space is a fullscreen or a system space.
NonUserStates ==
    {Settled(Cycle(s, m), w, F32Tenths(5)) :
        s \in {OnFullscreenSpace, TwoDisplays(OnFullscreenSpace), FullscreenBesideTree},
        m \in {Window_Focus_Cycle_None, Window_Focus_Cycle_Monitor, Window_Focus_Cycle_All},
        w \in {1}}
    \cup {Settled(Viewing(TreeOf(sc), 4), NoWindow, F32Tenths(5)) : sc \in {ScriptOne, ScriptShort}}
    \cup {Settled(Viewing(TwoDisplays(TreeOf(ScriptOne)), 3), NoWindow, F32Tenths(5))}

InitNonUser == \E s \in NonUserStates : InitFrom(s)

SpecNonUser == InitNonUser /\ [][Next]_vars

\* ------------------------------------------- the insertion point on a tree
NextPreselect ==
    \/ WindowFocused
    \/ DoUseInsertionPoint

SpecPreselect == InitTree /\ [][NextPreselect]_vars

\* ------------------------------------------------------------- properties
\* A step that runs a command (the other steps are the user's).
CommandStep == steps' = steps + 1

ActiveSpace == env.monActive[env.activeMon]

BoundIds(n, v, sp) ==
    {n[i].WindowId : i \in TreeNodes(n, v[sp].Tree, v[sp].Mode)} \ {NoWindow}

UniquelyBound(n, v, sp) ==
    \A i, j \in TreeNodes(n, v[sp].Tree, v[sp].Mode) :
        (i # j /\ n[i].WindowId # NoWindow) => n[i].WindowId # n[j].WindowId

BspSpaces == {sp \in Spaces : vs[sp].Mode = Virtual_Space_Bsp /\ vs[sp].Tree # NoNode}

InnerNodes(n, root) == {i \in SeqToSet(SubtreeSeq(n, root)) : ~IsLeafNode(n, i)}

\* The number of calls op on workspace sp among the first k calls of the
\* last command.
Calls(op, sp, k) == Cardinality({i \in 1..k : log[i].op = op /\ log[i].a = sp})

\* C1: acquire and release are matched.  After every command that returned,
\* whatever its exit path, the calls it made hold as many ReleaseVirtualSpace
\* as AcquireVirtualSpace for every workspace, no release comes before the
\* acquire it matches, and every workspace's acquire count is what it was
\* before the command (zero, the count between commands).
C1_AcquireReleaseMatched ==
    ~aborted =>
        \A sp \in Spaces :
            /\ vs[sp].Acquired = 0
            /\ Calls("acquire", sp, Len(log)) = Calls("release", sp, Len(log))
            /\ \A k \in 1..Len(log) : Calls("release", sp, k) <= Calls("acquire", sp, k)

\* A command that acquired the same workspace twice has returned, and so has
\* one that acquired and left early.
C1_Witness ==
    /\ ~aborted
    /\ \/ /\ last.cmd = "send_to_monitor"
          /\ last.exit = "moved"
          /\ \E sp \in Spaces : Calls("acquire", sp, Len(log)) = 2
       \/ /\ last.cmd = "grid"
          /\ last.exit = "space_free"
          /\ \E sp \in Spaces : Calls("acquire", sp, Len(log)) = 1

\* C2: unique binding.  A command of the tree commands (Swap, Warp, Rotate,
\* Mirror, Equalize, ToggleSplit, AdjustRatio, the zoom toggles), run on a
\* BSP or monocle tree in which no window id is bound twice, leaves a tree
\* in which no two nodes carry the same non-zero WindowId and the same set
\* of window ids bound.
C2_UniqueBinding ==
    [][\A sp \in Spaces :
        UniquelyBound(node, vs, sp) =>
            /\ UniquelyBound(node', vs', sp)
            /\ BoundIds(node', vs', sp) = BoundIds(node, vs, sp)]_vars

\* Warp has taken a window out of the tree and put it back next to its target.
C2_Witness == last.cmd = "warp" /\ last.exit = "warped" /\ ~aborted

WellFormedBsp(n, root) ==
    \A i \in SeqToSet(SubtreeSeq(n, root)) :
        IF IsLeafNode(n, i)
        THEN n[i].WindowId # NoWindow /\ n[i].Split = Split_None
        ELSE /\ n[i].Left # NoNode
             /\ n[i].Right # NoNode
             /\ n[i].Split \in {Split_Horizontal, Split_Vertical}

\* C3: BSP well-formedness.  In every state reached from a well-formed BSP
\* tree by Rotate (with any degrees token), Mirror, ToggleSplit, Swap,
\* AdjustRatio and the zoom toggles, every internal node has two children
\* and a Horizontal or Vertical split, and every leaf has no children, a
\* window id and NoSplit.
C3_WellFormed == \A sp \in BspSpaces : WellFormedBsp(node, vs[sp].Tree)

\* Rotate has run with a degrees token that is none of 90, 180, 270.
C3_Witness ==
    /\ last.cmd = "rotate"
    /\ last.arg = "45"
    /\ last.exit = "rotated"
    /\ \E sp \in BspSpaces : InnerNodes(node, vs[sp].Tree) # {}

\* C4: ratio bounds.  In every state reached by AdjustRatio, Rotate, Mirror,
\* Equalize, ToggleSplit, Swap and Warp from a BSP tree whose internal nodes
\* have 0.1 <= Ratio <= 0.9, every internal node has 0.1 <= Ratio <= 0.9,
\* whatever the shape of the tree (ten leaves to one side of a node and one
\* to the other included).
C4_RatioBounds ==
    \A sp \in BspSpaces :
        \A i \in InnerNodes(node, vs[sp].Tree) : RatioInRange(node[i].Ratio)

FullscreenZoomed(n, root, i) == n[root].Zoom = i
ParentZoomed(n, i) == n[i].Parent # NoNode /\ n[n[i].Parent].Zoom = i

\* C5: zoom exclusivity as stated.  In every state reached by the two zoom
\* toggles on any leaves of a BSP tree, the direct children of the root
\* included, no node is both fullscreen-zoomed and parent-zoomed.
C5_ZoomExclusive ==
    \A sp \in BspSpaces :
        \A i \in SeqToSet(SubtreeSeq(node, vs[sp].Tree)) :
            ~(FullscreenZoomed(node, vs[sp].Tree, i) /\ ParentZoomed(node, i))

\* C5, amended: zoom exclusivity below the root's children.  In every state
\* reached by the two zoom toggles, no node whose parent is not the root
\* is both fullscreen-zoomed and parent-zoomed.  (For a child of the root
\* the two are one field, Tree->Zoom.)
C5_ZoomExclusiveBelowRootChildren ==
    \A sp \in BspSpaces :
        \A i \in SeqToSet(SubtreeSeq(node, vs[sp].Tree)) :
            node[i].Parent # vs[sp].Tree =>
                ~(FullscreenZoomed(node, vs[sp].Tree, i) /\ ParentZoomed(node, i))

\* Both toggles have acted below the root's children: one leaf there is
\* fullscreen-zoomed and one is parent-zoomed.
C5_Witness ==
    \E sp \in BspSpaces :
        \E i, j \in SeqToSet(SubtreeSeq(node, vs[sp].Tree)) :
            /\ node[i].Parent \notin {NoNode, vs[sp].Tree}
            /\ node[j].Parent \notin {NoNode, vs[sp].Tree}
            /\ FullscreenZoomed(node, vs[sp].Tree, i)
            /\ ParentZoomed(node, j)

\* The insertion-point window exists but has no node in the tree of the
\* active workspace.
TreeStateMismatch ==
    /\ cvar.bsp_insertion_point \in DOMAIN win
    /\ SpaceType(ActiveSpace) = kCGSSpaceUser
    /\ vs[ActiveSpace].Tree # NoNode
    /\ vs[ActiveSpace].Mode \in {Virtual_Space_Bsp, Virtual_Space_Monocle}
    /\ GetNodeWithId(node, vs[ActiveSpace].Tree, cvar.bsp_insertion_point,
                     vs[ActiveSpace].Mode) = NoNode

\* C6: a tree-state mismatch is a silent no-op.  When the insertion-point
\* window exists but has no node in the active workspace's tree, each of
\* Focus, Swap, Warp and AdjustRatio, in BSP and in monocle mode, returns
\* without tripping an assertion and leaves the tree, every ratio and
\* region, the insertion point and the focus as they were.
C6_MismatchIsSilent ==
    [][(CommandStep /\ TreeStateMismatch
            /\ last'.cmd \in {"focus", "swap", "warp", "ratio"}) =>
        /\ ~aborted'
        /\ node' = node
        /\ vs' = vs
        /\ cvar' = cvar
        /\ focused' = focused]_vars

Zoomed(n, root, i) == FullscreenZoomed(n, root, i) \/ ParentZoomed(n, i)

InLeft(n, anc, src) == src = n[anc].Left \/ IsNodeInTree(n, n[anc].Left, src)

\* The ratio AdjustRatio computes when it adds the step for a source on the
\* left and subtracts it otherwise.
AddedWhenLeft(n, anc, src, step) ==
    F32Round(n[anc].Ratio + (IF InLeft(n, anc, src) THEN step ELSE 0 - step))

\* C8 as stated: AdjustRatio, with the target and the lowest common ancestor
\* A found, subtracts the configured step from A.Ratio when the source leaf
\* lies in A's left subtree and adds it otherwise.
C8_SubtractsWhenLeft ==
    [][(CommandStep /\ last'.cmd = "ratio" /\ last'.exit = "applied") =>
        node'[last'.anc].Ratio =
            F32Round(node[last'.anc].Ratio
                     + (IF InLeft(node, last'.anc, last'.src)
                        THEN 0 - cvar.bsp_split_ratio ELSE cvar.bsp_split_ratio))]_vars

\* C8, amended: AdjustRatio, with the target and the lowest common ancestor
\* A found, adds the configured step to A.Ratio when the source leaf lies in
\* A's left subtree and subtracts it otherwise; the result is stored when it
\* lies in [0.1, 0.9], and A.Ratio is kept when it does not.
C8_AddsWhenLeft ==
    [][(CommandStep /\ last'.cmd = "ratio" /\ last'.anc # NoNode) =>
        LET r == AddedWhenLeft(node, last'.anc, last'.src, cvar.bsp_split_ratio)
        IN  /\ last'.anc = GetLowestCommonAncestor(node, last'.src, last'.tgt)
            /\ node'[last'.anc].Ratio = IF RatioInRange(r) THEN r ELSE node[last'.anc].Ratio]_vars

\* AdjustRatio has changed the ratio of an ancestor with the source on its left.
C8_Witness ==
    /\ last.cmd = "ratio"
    /\ last.exit = "applied"
    /\ InLeft(node, last.anc, last.src)

\* C9: when the value AdjustRatio computes for the ancestor lies outside
\* [0.1, 0.9] the command is refused without clamping: every node's Ratio
\* and Region keep their values and no region is applied to any window.
C9_RefusedUnchanged ==
    [][(CommandStep /\ last'.cmd = "ratio" /\ last'.anc # NoNode
            /\ ~RatioInRange(AddedWhenLeft(node, last'.anc, last'.src,
                                           cvar.bsp_split_ratio))) =>
        /\ node' = node
        /\ win' = win
        /\ \A k \in 1..Len(log') : log'[k].op # "resize"]_vars

\* AdjustRatio has found an ancestor and refused the ratio.
C9_Witness == last.cmd = "ratio" /\ last.exit = "refused" /\ last.anc # NoNode

\* The three-leaf tree of the scenario on space 1: the root split Horizontal
\* at 0.5 over leaf a and an internal node split Vertical at ratio over the
\* leaves b and c.
ThreeLeaf(n, v, ratio) ==
    LET root == v[1].Tree
        right == n[root].Right
    IN  /\ v[1].Mode = Virtual_Space_Bsp
        /\ root # NoNode
        /\ ~IsLeafNode(n, root)
        /\ n[root].Split = Split_Horizontal
        /\ n[root].Ratio = F32Tenths(5)
        /\ IsLeafNode(n, n[root].Left)
        /\ ~IsLeafNode(n, right)
        /\ n[right].Split = Split_Vertical
        /\ n[right].Ratio = ratio
        /\ IsLeafNode(n, n[right].Left)
        /\ IsLeafNode(n, n[right].Right)

\* C10: in the three-leaf tree, AdjustRatio with step 0.1 issued from b
\* toward c (east) sets the right internal node's Ratio to 0.6, leaves the
\* root's Ratio and a's Region as they were and changes the regions of b
\* and c and of no other node.
C10_ThreeLeafAdjust ==
    [][(CommandStep /\ ActiveSpace = 1 /\ ThreeLeaf(node, vs, F32Tenths(5))
            /\ cvar.bsp_split_ratio = F32Tenths(1)
            /\ cvar.bsp_insertion_point = node[node[node[vs[1].Tree].Right].Left].WindowId
            /\ last'.cmd = "ratio" /\ last'.arg = "east") =>
        LET root == vs[1].Tree
            right == node[root].Right
            b == node[right].Left
            c == node[right].Right
        IN  /\ node'[right].Ratio = F32Tenths(6)
            /\ node'[root].Ratio = node[root].Ratio
            /\ node'[node[root].Left].Region = node[node[root].Left].Region
            /\ node'[b].Region # node[b].Region
            /\ node'[c].Region # node[c].Region
            /\ \A i \in DOMAIN node : i \notin {b, c} => node'[i].Region = node[i].Region
            /\ \A i \in DOMAIN node : i # right => node'[i].Ratio = node[i].Ratio]_vars

\* The scenario has run: the right internal node's ratio is 0.6.
C10_Witness ==
    /\ last.cmd = "ratio"
    /\ last.arg = "east"
    /\ last.exit = "applied"
    /\ ThreeLeaf(node, vs, F32Tenths(6))
    /\ last.anc = node[vs[1].Tree].Right
    /\ last.src = node[last.anc].Left

\* The direction that undoes a direction.
Opposite(dir) ==
    IF dir = "west" THEN "east"
    ELSE IF dir = "east" THEN "west"
    ELSE IF dir = "north" THEN "south"
    ELSE IF dir = "south" THEN "north"
    ELSE IF dir = "prev" THEN "next"
    ELSE IF dir = "next" THEN "prev"
    ELSE dir

\* Every node holds the same window in both arenas.
SameBinding(n1, n2) == \A i \in DOMAIN n1 : n1[i].WindowId = n2[i].WindowId

\* In a workspace of the mode, Swap in a direction of dirs that finds a
\* target, followed by Swap in the opposite direction (the system lists the
\* windows in the same order both times, the insertion point is not touched
\* in between), leaves every leaf with the window it had.
SwapBack(dirs, mode) ==
    \A d \in dirs : \A o \in Orders :
        LET t1 == SwapWindow(Cur, d, o)
            t2 == SwapWindow(t1, Opposite(d), o)
        IN  (vs[ActiveSpace].Mode = mode /\ t1.last.exit = "swapped")
                => SameBinding(t2.node, node)

\* C11: Swap is involutive.  For every BSP layout, source window and
\* direction west, east, north or south for which Swap finds a target,
\* Swap(dir) followed by Swap(opposite(dir)) restores the binding of every
\* window to every leaf; in monocle mode the same holds for prev followed by
\* next, the wrap at the ends of the list included.
C11_SwapInvolutive ==
    ~aborted =>
        /\ SwapBack(Directions, Virtual_Space_Bsp)
        /\ SwapBack({"prev"}, Virtual_Space_Monocle)

\* The other orientation of a split.
Toggled(split) ==
    IF split = Split_Horizontal THEN Split_Vertical
    ELSE IF split = Split_Vertical THEN Split_Horizontal
    ELSE split

\* Node i has its children exchanged in m, or has them as in n.
ChildrenSwapped(n, m, i) == m[i].Left = n[i].Right /\ m[i].Right = n[i].Left
ChildrenKept(n, m, i) == m[i].Left = n[i].Left /\ m[i].Right = n[i].Right

\* What a rotation by degrees makes of node i of n, read from the result m.
RotatedAs(n, m, i, degrees) ==
    LET swapped == \/ degrees = "180"
                   \/ degrees = "90" /\ n[i].Split = Split_Vertical
                   \/ degrees = "270" /\ n[i].Split = Split_Horizontal
    IN  /\ IF swapped THEN ChildrenSwapped(n, m, i) ELSE ChildrenKept(n, m, i)
        /\ m[i].Ratio = IF swapped THEN F32Round(Unit - n[i].Ratio) ELSE n[i].Ratio
        /\ m[i].Split = IF degrees = "180" THEN n[i].Split ELSE Toggled(n[i].Split)
        /\ m[i].WindowId = n[i].WindowId
        /\ m[i].Parent = n[i].Parent
        /\ IsLeafNode(n, i) => m[i].Split = Split_None /\ IsLeafNode(m, i)

\* C12: RotateBSPTree acts on each node by its split before the rotation.
\* For 90 the children are exchanged exactly at the nodes that were
\* Vertical, for 270 exactly at those that were Horizontal, and every
\* internal node's split is toggled; for 180 the children are exchanged and
\* Ratio becomes 1 - Ratio at every node and every split is kept; for 90 and
\* 270 Ratio becomes 1 - Ratio exactly where the children are exchanged;
\* leaves keep NoSplit and their window.
C12_RotatePerNode ==
    [][(CommandStep /\ last'.cmd = "rotate" /\ last'.exit = "rotated"
            /\ last'.arg \in {"90", "180", "270"}) =>
        \A i \in SeqToSet(SubtreeSeq(node, vs[ActiveSpace].Tree)) :
            RotatedAs(node, node', i, last'.arg)]_vars

\* A rotation by 90 has run on a tree with a Vertical and a Horizontal
\* internal node, one of them with a ratio that is not a half.
C12_Witness ==
    /\ last.cmd = "rotate"
    /\ last.arg = "90"
    /\ last.exit = "rotated"
    /\ \E i, j \in InnerNodes(node, vs[ActiveSpace].Tree) :
        /\ node[i].Split = Split_Vertical
        /\ node[j].Split = Split_Horizontal
        /\ node[i].Ratio # F32Tenths(5)


\* The state a step leaves, as the record the handlers take.
NextCur ==
    [node |-> node', vs |-> vs', win |-> win', focused |-> focused',
     cvar |-> cvar', env |-> env', file |-> file', log |-> log',
     last |-> last', aborted |-> aborted']

\* The nodes of the active workspace's tree and its leaves.
ActiveTree == SeqToSet(SubtreeSeq(node, vs[ActiveSpace].Tree))
ActiveInner == InnerNodes(node, vs[ActiveSpace].Tree)
ActiveLeaves == ActiveTree \ ActiveInner

\* Two arenas agree on the shape, the splits and the windows of the nodes ids.
SameTree(n1, n2, ids) ==
    \A i \in ids :
        /\ n1[i].Left = n2[i].Left
        /\ n1[i].Right = n2[i].Right
        /\ n1[i].Parent = n2[i].Parent
        /\ n1[i].Split = n2[i].Split
        /\ n1[i].WindowId = n2[i].WindowId
SameRatio(n1, n2, ids) == \A i \in ids : n1[i].Ratio = n2[i].Ratio
SameRegion(n1, n2, ids) == \A i \in ids : n1[i].Region = n2[i].Region

\* This step is a Rotate command with the given token that rotated the tree.
RotateStep(degrees) ==
    CommandStep /\ last'.cmd = "rotate" /\ last'.exit = "rotated" /\ last'.arg = degrees

\* C13 (as stated): Rotate 90 twice gives the tree Rotate 180 gives from the
\* original: the same child order, Split, Ratio and window at every node.
C13_Rotate90TwiceIs180 ==
    [][RotateStep("90") =>
        LET twice == RotateWindowTree(NextCur, "90").node
            half == RotateWindowTree(Cur, "180").node
        IN  /\ SameTree(twice, half, ActiveTree)
            /\ SameRatio(twice, half, ActiveTree)]_vars

\* C13 (amended): Rotate 90 twice and Rotate 180 once give the same child
\* order, Split, window and Region at every node and the same Ratio at every
\* internal node, and leave the same window frames; a leaf's Ratio is
\* replaced by 1 - Ratio by Rotate 180 and kept by Rotate 90.
C13_Rotate90TwiceIs180Inner ==
    [][RotateStep("90") =>
        LET twice == RotateWindowTree(NextCur, "90")
            half == RotateWindowTree(Cur, "180")
        IN  /\ SameTree(twice.node, half.node, ActiveTree)
            /\ SameRatio(twice.node, half.node, ActiveInner)
            /\ SameRegion(twice.node, half.node, ActiveTree)
            /\ twice.win = half.win
            /\ \A i \in ActiveLeaves :
                /\ twice.node[i].Ratio = node[i].Ratio
                /\ half.node[i].Ratio = F32OneMinus(node[i].Ratio)]_vars

\* A rotation by 90 has run on a tree with internal nodes of both splits and
\* a leaf whose ratio is not a half.
C13_Witness ==
    /\ last.cmd = "rotate"
    /\ last.arg = "90"
    /\ last.exit = "rotated"
    /\ \E i, j \in ActiveInner :
        node[i].Split = Split_Vertical /\ node[j].Split = Split_Horizontal
    /\ \E l \in ActiveLeaves : node[l].Ratio # F32Tenths(5)

\* C14: Rotate 180 twice is the identity: every node has its children,
\* Split and Ratio back, and the recomputed Regions are the original ones.
C14_Rotate180Twice ==
    [][RotateStep("180") =>
        LET back == RotateWindowTree(NextCur, "180").node
        IN  /\ SameTree(back, node, ActiveTree)
            /\ SameRatio(back, node, ActiveTree)
            /\ SameRegion(back, node, ActiveTree)]_vars

\* Every internal node of the active tree splits its region in halves.
Balanced == \A i \in ActiveInner : node[i].Ratio = F32Tenths(5)

\* C15: Rotate 270 followed by Rotate 90 restores the Split of every node of
\* any tree (and the child order with it); on a tree whose internal nodes all
\* have Ratio 0.5 it restores the Ratio of every node as well.
C15_Rotate270Then90 ==
    [][RotateStep("270") =>
        LET back == RotateWindowTree(NextCur, "90").node
        IN  /\ SameTree(back, node, ActiveTree)
            /\ Balanced => SameRatio(back, node, ActiveTree)]_vars

\* A rotation by 270 has run on a balanced tree with internal nodes of both
\* splits.
C15_Witness ==
    /\ last.cmd = "rotate"
    /\ last.arg = "270"
    /\ last.exit = "rotated"
    /\ Balanced
    /\ \E i, j \in ActiveInner :
        node[i].Split = Split_Vertical /\ node[j].Split = Split_Horizontal


\* The split a Mirror token names (no split for any other token).
AxisOf(direction) ==
    IF direction = "vertical" THEN Split_Vertical
    ELSE IF direction = "horizontal" THEN Split_Horizontal
    ELSE Split_None

\* This step is a Mirror command with the given token that reached the tree.
MirrorStep(direction) ==
    CommandStep /\ last'.cmd = "mirror" /\ last'.exit = "mirrored" /\ last'.arg = direction

\* C16: MirrorBSPTree(root, axis) exchanges the children exactly at the
\* internal nodes whose Split is axis and keeps the child order of every
\* other node; no node's Split, Ratio or WindowId changes and the root stays
\* the root.
C16_MirrorPerNode ==
    [][\A d \in {"vertical", "horizontal"} : MirrorStep(d) =>
        /\ \A i \in ActiveTree :
            /\ IF ~IsLeafNode(node, i) /\ node[i].Split = AxisOf(d)
               THEN ChildrenSwapped(node, node', i)
               ELSE ChildrenKept(node, node', i)
            /\ node'[i].Split = node[i].Split
            /\ node'[i].Ratio = node[i].Ratio
            /\ node'[i].WindowId = node[i].WindowId
            /\ node'[i].Parent = node[i].Parent
        /\ vs'[ActiveSpace].Tree = vs[ActiveSpace].Tree
        /\ node'[vs'[ActiveSpace].Tree].Parent = NoNode]_vars

\* A vertical mirror has run on a tree with a Vertical and a Horizontal
\* internal node.
C16_Witness ==
    /\ last.cmd = "mirror"
    /\ last.arg = "vertical"
    /\ last.exit = "mirrored"
    /\ \E i, j \in ActiveInner :
        /\ node[i].Split = Split_Vertical
        /\ node[j].Split = Split_Horizontal

\* C17: Mirror(axis) followed by Mirror(axis) is the identity on child
\* order, Split, Ratio, leaf bindings and the recomputed regions, for both
\* axes.
C17_MirrorTwice ==
    [][\A d \in {"vertical", "horizontal"} : MirrorStep(d) =>
        LET back == MirrorWindowTree(NextCur, d).node
        IN  /\ SameTree(back, node, ActiveTree)
            /\ SameRatio(back, node, ActiveTree)
            /\ SameRegion(back, node, ActiveTree)]_vars

\* A horizontal mirror has exchanged the children of a Horizontal node in a
\* tree that also has a Vertical node and a ratio that is not a half.
C17_Witness ==
    /\ last.cmd = "mirror"
    /\ last.arg = "horizontal"
    /\ last.exit = "mirrored"
    /\ \E i, j \in ActiveInner :
        /\ node[i].Split = Split_Horizontal
        /\ node[j].Split = Split_Vertical
        /\ node[i].Ratio # F32Tenths(5) \/ node[j].Ratio # F32Tenths(5)


\* The stored offsets of every workspace are at least zero.
NonNegative(o) ==
    o.Top >= 0 /\ o.Bottom >= 0 /\ o.Left >= 0 /\ o.Right >= 0 /\ o.Gap >= 0
StoredNonNegative(v) == \A sp \in DOMAIN v : NonNegative(v[sp].StoredOffset)

\* The stored offset of the active workspace; the least of its four sides.
Stored == vs[ActiveSpace].StoredOffset
Tiling == vs[ActiveSpace].Mode # Virtual_Space_Float
SomeSideBelow(k) == Stored.Top < k \/ Stored.Bottom < k \/ Stored.Left < k \/ Stored.Right < k

\* C18: with step sizes of at least zero, every padding, gap and toggle
\* command leaves the stored Top, Bottom, Left, Right and Gap of every
\* workspace at least zero; a padding decrement that would make one of the
\* four sides negative leaves all four as they were, and a gap decrement
\* that would make Gap negative leaves Gap as it was.
C18_OffsetsNonNegative ==
    [][(CommandStep /\ cvar.padding_step_size >= 0 /\ cvar.gap_step_size >= 0
            /\ StoredNonNegative(vs)) =>
        /\ StoredNonNegative(vs')
        /\ (last'.cmd = "padding" /\ last'.arg = "dec"
                /\ SomeSideBelow(cvar.padding_step_size)) =>
            vs'[ActiveSpace].StoredOffset = Stored
        /\ (last'.cmd = "padding" /\ last'.arg = "dec" /\ Tiling
                /\ ~SomeSideBelow(cvar.padding_step_size)) =>
            vs'[ActiveSpace].StoredOffset =
                [Stored EXCEPT !.Top = @ - cvar.padding_step_size,
                               !.Bottom = @ - cvar.padding_step_size,
                               !.Left = @ - cvar.padding_step_size,
                               !.Right = @ - cvar.padding_step_size]
        /\ (last'.cmd = "gap" /\ last'.arg = "dec" /\ Stored.Gap < cvar.gap_step_size) =>
            vs'[ActiveSpace].StoredOffset = Stored
        /\ (last'.cmd = "gap" /\ last'.arg = "dec" /\ Tiling
                /\ Stored.Gap >= cvar.gap_step_size) =>
            vs'[ActiveSpace].StoredOffset =
                [Stored EXCEPT !.Gap = @ - cvar.gap_step_size]]_vars

\* A padding decrement was refused on a workspace where one side is below
\* the step and another is not, after an earlier decrement was applied.
C18_Witness ==
    /\ last.cmd = "padding"
    /\ last.arg = "dec"
    /\ last.exit = "refused"
    /\ steps >= 2
    /\ Stored.Top < cvar.padding_step_size
    /\ Stored.Right >= cvar.padding_step_size
    /\ Stored # DefaultOffset

\* C19: ToggleOffset never changes the stored offsets: on a tiling
\* workspace it switches the active offset between null (zero) and the
\* stored values and nothing else of the workspace, so a second toggle
\* restores the active offset; on a floating workspace it changes nothing.
C19_ToggleKeepsStored ==
    [][(CommandStep /\ last'.cmd = "toggle_space" /\ last'.arg = "offset") =>
        /\ \A sp \in DOMAIN vs : vs'[sp].StoredOffset = vs[sp].StoredOffset
        /\ vs'[ActiveSpace].OffsetOn = IF Tiling THEN ~vs[ActiveSpace].OffsetOn
                                       ELSE vs[ActiveSpace].OffsetOn
        /\ Tiling => ActiveOffset(vs'[ActiveSpace]) =
                        IF vs[ActiveSpace].OffsetOn
                        THEN [Top |-> 0, Bottom |-> 0, Left |-> 0, Right |-> 0, Gap |-> 0]
                        ELSE Stored
        /\ LET again == ToggleSpace(NextCur, "offset")
           IN  /\ again.vs = vs
               /\ ActiveOffset(again.vs[ActiveSpace]) = ActiveOffset(vs[ActiveSpace])]_vars

\* The offset was switched off and on again around a padding or gap
\* command, with stored values that are not zero.
C19_Witness ==
    /\ last.cmd = "toggle_space"
    /\ last.arg = "offset"
    /\ last.exit = "toggled"
    /\ steps >= 3
    /\ vs[ActiveSpace].OffsetOn
    /\ Stored.Top > 0
    /\ Stored.Gap > 0
    /\ Stored # DefaultOffset


\* The leaf of the focused window in the active BSP tree, NoNode without one.
FocusedLeaf ==
    IF focused = NoWindow \/ vs[ActiveSpace].Mode # Virtual_Space_Bsp
          \/ vs[ActiveSpace].Tree = NoNode
    THEN NoNode
    ELSE GetNodeWithId(node, vs[ActiveSpace].Tree, focused, Virtual_Space_Bsp)

\* The split and the side a direction pre-selects.
PreselectOf(p, d) ==
    /\ p.Direction = d
    /\ p.Split = IF d \in {"west", "east"} THEN Split_Vertical ELSE Split_Horizontal
    /\ p.SpawnLeft = (d \in {"west", "north"})

\* C20: UseInsertionPoint on the focused window's leaf is a toggle per
\* direction: a direction d attaches a Preselect of d to a leaf without
\* one, removes a Preselect of d, and replaces a Preselect of another
\* direction by one of d; cancel removes any Preselect and attaches none.
\* The leaf holds the one Preselect named or none, and no other node and no
\* other field changes.
C20_InsertionPointToggle ==
    [][(CommandStep /\ last'.cmd = "insertion_point" /\ FocusedLeaf # NoNode) =>
        LET nd == FocusedLeaf
            d == last'.arg
            old == node[nd].Preselect
            new == node'[nd].Preselect
        IN  /\ (d \in Directions /\ old = NoPreselect) => PreselectOf(new, d)
            /\ (d \in Directions /\ old.Direction = d) => new = NoPreselect
            /\ (d \in Directions /\ old # NoPreselect /\ old.Direction # d) =>
                    PreselectOf(new, d)
            /\ d = "cancel" => new = NoPreselect
            /\ IsLeafNode(node, nd)
            /\ node' = [node EXCEPT ![nd].Preselect = new]]_vars

\* The direction of the leaf's Preselect was given again and removed it.
C20_Witness ==
    /\ last.cmd = "insertion_point"
    /\ last.arg \in Directions
    /\ last.exit = "cleared"
    /\ last.src # NoNode
    /\ node[last.src].Preselect = NoPreselect
    /\ node[last.src].WindowId = focused


\* The last command made the call op with the argument a.
Called(op, a) == \E i \in DOMAIN log : log[i].op = op /\ log[i].a = a

\* The desktop SendWindowToDesktop takes the focused window from and the one
\* the token names (-1 for a token that is no number).
SourceDesktop(op) ==
    IF op \in {"prev", "next"} THEN win[focused].Space ELSE ActiveSpace
DestinationDesktop(op) ==
    IF op = "prev" THEN SourceDesktop(op) - 1
    ELSE IF op = "next" THEN SourceDesktop(op) + 1
    ELSE ParseNumber(op)

\* The destination checks of SendWindowToDesktop fail for the token.
DestinationRefused(op) ==
    /\ focused \in DOMAIN win
    /\ SpaceType(SourceDesktop(op)) = kCGSSpaceUser
    /\ \/ op \notin {"prev", "next"} /\ ParseNumber(op) < 0
       \/ DestinationDesktop(op) = SourceDesktop(op)
       \/ ~DesktopExists(Cur, DestinationDesktop(op))

\* C21: SendWindowToDesktop whose destination does not exist, equals the
\* source desktop or is no integer logs a warning and returns failure; no
\* tree, workspace or window changes, the window stays on its space and the
\* focus stays where it was.
C21_RefusedSendMutatesNothing ==
    [][\A op \in DesktopTokens :
        (CommandStep /\ last'.cmd = "send_to_desktop" /\ last'.arg = op
                /\ DestinationRefused(op)) =>
            /\ node' = node
            /\ vs' = vs
            /\ win' = win
            /\ focused' = focused
            /\ cvar' = cvar
            /\ env' = env
            /\ ~aborted'
            /\ Cardinality({i \in DOMAIN log' : log'[i].op = "c_log"}) = 1
            /\ log'[Len(log')] = [op |-> "return", a |-> 0, r |-> NoRegion]
            /\ \A i \in DOMAIN log' :
                log'[i].op \notin {"move", "focus", "resize", "acquire", "untile"}]_vars

\* Send-to-desktop next was refused for a tiled window on the last desktop
\* of its kind: the desktop after it does not exist.
C21_Witness ==
    /\ last.cmd = "send_to_desktop"
    /\ last.arg = "next"
    /\ last.exit = "no_desktop"
    /\ focused \in DOMAIN win
    /\ ~win[focused].Float
    /\ vs[win[focused].Space].Tree # NoNode
    /\ Called("c_log", 0)


\* The monitor SendWindowToMonitor takes the token for (the token counts
\* monitors from 1, the system from 0).
DestinationMonitorOf(op) ==
    IF op = "prev" THEN SpaceMonitor(ActiveSpace) - 1
    ELSE IF op = "next" THEN SpaceMonitor(ActiveSpace) + 1
    ELSE ParseNumber(op) - 1

\* C22: SendWindowToMonitor refuses a destination monitor that is the source
\* monitor: the source workspace's tree (shape, bindings, regions) and the
\* window's position and size stay as they were.
C22_SameMonitorRefused ==
    [][\A op \in MonitorTokens :
        (CommandStep /\ last'.cmd = "send_to_monitor" /\ last'.arg = op
                /\ focused \in DOMAIN win
                /\ SpaceType(ActiveSpace) = kCGSSpaceUser
                /\ (op \in {"prev", "next"} \/ ParseNumber(op) >= 0)
                /\ DestinationMonitorOf(op) = SpaceMonitor(ActiveSpace)) =>
            /\ node' = node
            /\ vs'[ActiveSpace].Tree = vs[ActiveSpace].Tree
            /\ win'[focused].Rect = win[focused].Rect]_vars


\* C23: sticky implies float.  Whatever ToggleWindowFloat and
\* ToggleWindowSticky commands ran on windows that started neither sticky
\* nor floating, a window with the Sticky flag has the Float flag.
C23_StickyImpliesFloat ==
    \A w \in DOMAIN win : win[w].Sticky => win[w].Float


\* A floating window w of the active space was sent to a space of another
\* display by this step; its rectangle is then the normalized one.
SentAcross(w) ==
    /\ CommandStep
    /\ last'.cmd \in {"send_to_desktop", "send_to_monitor"}
    /\ focused = w
    /\ win[w].Float
    /\ win[w].Space = ActiveSpace
    /\ SpaceMonitor(win'[w].Space) # SpaceMonitor(win[w].Space)

\* C24: normalization does not enlarge.  On an axis where the source
\* display is not larger than the destination (scale <= 1) the normalized
\* size is not greater than the original; where it is larger (scale > 1)
\* the offset from the display's edge and the size are divided by scale.
C24_NormalizeNoEnlarge ==
    [][\A w \in DOMAIN win : SentAcross(w) =>
        LET S == DisplayBounds(SpaceMonitor(win[w].Space))
            D == DisplayBounds(SpaceMonitor(win'[w].Space))
            o == win[w].Rect
            n == win'[w].Rect
        IN  /\ S.Width <= D.Width => n.Width <= o.Width
            /\ S.Height <= D.Height => n.Height <= o.Height
            /\ S.Width > D.Width =>
                /\ n.Width = (o.Width * D.Width) \div S.Width
                /\ n.X - D.X = ((o.X - S.X) * D.Width) \div S.Width
            /\ S.Height > D.Height =>
                /\ n.Height = (o.Height * D.Height) \div S.Height
                /\ n.Y - D.Y = ((o.Y - S.Y) * D.Height) \div S.Height]_vars


\* A command runs while the active space is no user space.
NonUserStep == CommandStep /\ SpaceType(ActiveSpace) # kCGSSpaceUser

\* The trees, the workspaces and the files stay.
NonUserFrame ==
    /\ node' = node
    /\ vs' = vs
    /\ file' = file
    /\ ~aborted'

\* Focus moved the focus to another window of the active fullscreen space.
FocusInFullscreen ==
    /\ last'.cmd = "focus"
    /\ SpaceType(ActiveSpace) = kCGSSpaceFullscreen
    /\ focused' \in DOMAIN win
    /\ win[focused'].Space = ActiveSpace

BspCommand(l) ==
    \/ l.cmd \in {"rotate", "mirror", "equalize", "insertion_point", "ratio",
                  "serialize", "deserialize"}
    \/ l.cmd = "toggle" /\ l.arg \in {"split", "fullscreen", "parent"}

TilingCommand(l) ==
    \/ l.cmd \in {"focus", "swap", "warp", "padding", "gap"}
    \/ l.cmd = "toggle_space"

\* A command runs on a user space whose workspace has the wrong mode for it.
WrongModeStep ==
    /\ CommandStep
    /\ SpaceType(ActiveSpace) = kCGSSpaceUser
    /\ \/ vs[ActiveSpace].Mode # Virtual_Space_Bsp /\ BspCommand(last')
       \/ vs[ActiveSpace].Mode = Virtual_Space_Float /\ TilingCommand(last')

\* C26: a command issued on the wrong workspace mode is a no-op: the
\* BSP-only commands on a Monocle or Float workspace, and Focus, Swap, Warp,
\* ToggleOffset, AdjustPadding and AdjustGap on a Float workspace, leave the
\* trees, ratios, regions, zoom pointers, preselects and offsets as they
\* were, and the windows, the focus, the configuration and the files too.
C26_WrongModeNoOp ==
    [][WrongModeStep =>
        /\ node' = node
        /\ vs' = vs
        /\ win' = win
        /\ focused' = focused
        /\ cvar' = cvar
        /\ env' = env
        /\ file' = file
        /\ ~aborted']_vars

\* A BSP-only command was refused on a Monocle workspace that holds windows.
C26_Witness ==
    /\ steps = 1
    /\ last.cmd = "rotate"
    /\ last.exit = "vspace_release"
    /\ vs[ActiveSpace].Mode = Virtual_Space_Monocle
    /\ vs[ActiveSpace].Tree # NoNode


\* The number of space descriptors of space sp obtained among the first k
\* calls of the last command, from AXLibActiveSpace or from the spaces of a
\* window.
Obtained(sp, k) == Calls("active_space", sp, k) + Calls("window_space", sp, k)

\* C27: every space descriptor a command or a query obtains from
\* AXLibActiveSpace is destroyed exactly once before it returns: among the
\* calls of the last command that returned there are as many
\* AXLibDestroySpace as descriptors obtained for every space, and no
\* descriptor is destroyed before it was obtained.
C27_DescriptorsDestroyed ==
    ~aborted =>
        \A sp \in Spaces :
            /\ Calls("destroy_space", sp, Len(log)) = Obtained(sp, Len(log))
            /\ \A k \in 0..Len(log) :
                Calls("destroy_space", sp, k) <= Obtained(sp, k)


\* The calls of the last command that write a configuration variable.
CVarWrites == {i \in DOMAIN log : log[i].op \in {"cvar_insertion_point", "cvar_split_ratio"}}

\* C28 (as stated): the core only reads configuration variables: no command
\* writes one, so every configuration variable has at every step of every
\* command the value it had at its start.
C28_CVarsOnlyRead ==
    [][CommandStep => cvar' = cvar /\ CVarWrites' = {}]_vars

\* C28 (amended): two commands write configuration variables.
\* TemporaryRatio writes bsp_split_ratio and nothing else.  WarpWindow, when
\* it moves the window to another parent, writes bsp_insertion_point twice:
\* the closest window's id before the window is tiled again, and the
\* window's own id after, the value the variable had when the command
\* started.  Every other command writes none, and every variable but
\* bsp_split_ratio has after every command the value it had before.
C28_CVarWriters ==
    [][CommandStep =>
        /\ cvar' = [cvar EXCEPT !.bsp_split_ratio = cvar'.bsp_split_ratio]
        /\ cvar' # cvar => last'.cmd = "ratio_cvar"
        /\ CVarWrites' # {} =>
            \/ /\ last'.cmd = "ratio_cvar"
               /\ \A i \in CVarWrites' : log'[i].op = "cvar_split_ratio"
            \/ /\ last'.cmd = "warp"
               /\ Cardinality(CVarWrites') = 2
               /\ \A i \in CVarWrites' :
                    /\ log'[i].op = "cvar_insertion_point"
                    /\ log'[i].a \in DOMAIN win
                    /\ (\A j \in CVarWrites' : j <= i) =>
                            log'[i].a = cvar.bsp_insertion_point]_vars

\* WarpWindow wrote the closest window's id and then the window's own id to
\* bsp_insertion_point.
C28_Witness ==
    /\ last.cmd = "warp"
    /\ \E i, j \in CVarWrites :
        /\ i < j
        /\ log[i].a # log[j].a
        /\ log[j].a = cvar.bsp_insertion_point
        /\ log[j].a = focused


\* One display shows a BSP workspace whose tree is a single leaf; its window
\* is the only one on the space, has the focus and is the insertion point.
OnSingleLeaf ==
    /\ env.displays = 1
    /\ SpaceType(ActiveSpace) = kCGSSpaceUser
    /\ vs[ActiveSpace].Mode = Virtual_Space_Bsp
    /\ vs[ActiveSpace].Tree # NoNode
    /\ node[vs[ActiveSpace].Tree].Left = NoNode
    /\ node[vs[ActiveSpace].Tree].Right = NoNode
    /\ node[vs[ActiveSpace].Tree].WindowId = focused
    /\ cvar.bsp_insertion_point = focused
    /\ \A w \in DOMAIN win : win[w].Space = ActiveSpace => w = focused

\* C29: on a single display, in a BSP workspace whose tree is a single leaf,
\* Focus west trips no assertion and leaves the focused window and the tree
\* as they were, for each of the focus-cycle modes all, monitor and none.
C29_FocusWestSingleLeaf ==
    [][(CommandStep /\ OnSingleLeaf /\ last'.cmd = "focus" /\ last'.arg = "west") =>
        /\ ~aborted'
        /\ focused' = focused
        /\ node' = node
        /\ vs' = vs]_vars

\* Under the cycle mode all Focus west found no window, went through
\* FocusMonitor and gave the focus to the window that had it.
C29_Witness ==
    /\ OnSingleLeaf
    /\ last.cmd = "focus"
    /\ last.arg = "west"
    /\ last.exit = "monitor"
    /\ cvar.window_focus_cycle = Window_Focus_Cycle_All
    /\ Called("focus", focused)


\* The call that resizes the window of node nd (as it was before the
\* command) to the rectangle r.
ResizeOf(nd, r) == [op |-> "resize", a |-> node[nd].WindowId, r |-> r]

\* Among the calls of the command, the resize of m to its own region comes
\* before the resize of n to the rectangle r.
UnzoomedBefore(m, n, r) ==
    \E i, j \in DOMAIN log' :
        /\ i < j
        /\ log'[i] = ResizeOf(m, node[m].Region)
        /\ log'[j] = ResizeOf(n, r)

\* The leaf nd is referenced by the root's Zoom or by its parent's.
ZoomReferenced(nd) ==
    \/ node[vs[ActiveSpace].Tree].Zoom = nd
    \/ node[nd].Parent # NoNode /\ node[node[nd].Parent].Zoom = nd

\* Every window of the tree is displayed at its own node's Region unless a
\* Zoom references its node.
DisplayedAtRegion ==
    \A nd \in ActiveLeaves :
        win[node[nd].WindowId].Rect # node[nd].Region => ZoomReferenced(nd)

\* C30: zoom toggles undo the competing zoom first.  When
\* ToggleFullscreenZoom zooms leaf n while another leaf m is
\* fullscreen-zoomed, m's window is resized back to m.Region before n's is
\* resized to the root's region, and Tree.Zoom ends as n; when
\* ToggleParentZoom zooms n while its sibling s is parent-zoomed, s's window
\* is resized back to s.Region before n's is resized to the parent's region,
\* and Parent.Zoom ends as n.  After any run of zoom toggles a window is
\* displayed elsewhere than at its own node's Region only if Tree.Zoom or its
\* parent's Zoom references its node.
C30_ZoomUndoesCompeting ==
    [][/\ DisplayedAtRegion
       /\ DisplayedAtRegion'
       /\ (CommandStep /\ last'.cmd = "toggle" /\ last'.exit = "zoomed") =>
            LET root == vs[ActiveSpace].Tree
                n == last'.src
                par == node[n].Parent
            IN  /\ (last'.arg = "fullscreen" /\ node[root].Zoom # NoNode) =>
                    /\ UnzoomedBefore(node[root].Zoom, n, node[root].Region)
                    /\ node'[root].Zoom = n
                    /\ win'[node[node[root].Zoom].WindowId].Rect
                            = node[node[root].Zoom].Region
                /\ (last'.arg = "parent" /\ node[par].Zoom # NoNode) =>
                    /\ UnzoomedBefore(node[par].Zoom, n, node[par].Region)
                    /\ node'[par].Zoom = n
                    /\ win'[node[node[par].Zoom].WindowId].Rect
                            = node[node[par].Zoom].Region]_vars

\* A fullscreen zoom took the place of another window's: two windows were
\* resized, the first back to its own region, and the root's Zoom references
\* the second.
C30_Witness ==
    /\ last.cmd = "toggle"
    /\ last.arg = "fullscreen"
    /\ last.exit = "zoomed"
    /\ \E i, j \in DOMAIN log :
        /\ i < j
        /\ log[i].op = "resize"
        /\ log[j].op = "resize"
        /\ log[i].a # log[j].a
        /\ \E m \in ActiveLeaves :
            /\ node[m].WindowId = log[i].a
            /\ log[i].r = node[m].Region
            /\ win[log[i].a].Rect = node[m].Region
        /\ node[node[vs[ActiveSpace].Tree].Zoom].WindowId = log[j].a


\* The node of the active tree that holds window w, in the arena n.
BoundIn(n, w) == GetNodeWithId(n, vs[ActiveSpace].Tree, w, Virtual_Space_Bsp)

\* Warp ran on the active BSP workspace with the source leaf a and the target
\* leaf b.
WarpStep(exit) ==
    /\ CommandStep
    /\ last'.cmd = "warp"
    /\ last'.exit = exit
    /\ vs[ActiveSpace].Mode = Virtual_Space_Bsp

\* The calls of the moving Warp, in their order: the windows left behind by
\* the untile are resized, the insertion point becomes the target's window,
\* the source is tiled and resized, the insertion point becomes the source's
\* window again, and nothing is resized after.
WarpOrder(src, tgt) ==
    \E i, j \in DOMAIN log' :
        /\ i < j
        /\ CVarWrites' = {i, j}
        /\ log'[i].a = tgt
        /\ log'[j].a = src
        /\ \E k \in 1..(i - 1) : log'[k].op = "resize" /\ log'[k].a # src
        /\ \A k \in 1..(i - 1) : log'[k].op = "resize" => log'[k].a # src
        /\ \E k \in (i + 1)..(j - 1) : log'[k].op = "resize" /\ log'[k].a = src
        /\ \A k \in (j + 1)..Len(log') : log'[k].op # "resize"

\* C31: BSP Warp.  When the target leaf shares the source's parent the
\* command only exchanges the two WindowIds and never writes the insertion
\* point; otherwise it untiles the source, sets the insertion point to the
\* target's window, tiles the source again (as the target's new sibling) and
\* sets the insertion point back to the source's window.  On every path the
\* insertion point after Warp equals the insertion point before it.
C31_WarpOrder ==
    [][/\ (CommandStep /\ last'.cmd = "warp") =>
            cvar'.bsp_insertion_point = cvar.bsp_insertion_point
       /\ WarpStep("swapped") =>
            /\ node[last'.src].Parent = node[last'.tgt].Parent
            /\ node' = SwapNodeIds(node, last'.src, last'.tgt)
            /\ CVarWrites' = {}
       /\ WarpStep("warped") =>
            /\ node[last'.src].Parent # node[last'.tgt].Parent
            /\ WarpOrder(node[last'.src].WindowId, node[last'.tgt].WindowId)
            /\ BoundIn(node', node[last'.src].WindowId) # NoNode
            /\ node'[BoundIn(node', node[last'.src].WindowId)].Parent
                = node'[BoundIn(node', node[last'.tgt].WindowId)].Parent]_vars

\* Warp moved the window under the target's parent and the insertion point
\* is the window again.
C31_Witness ==
    /\ last.cmd = "warp"
    /\ last.exit = "warped"
    /\ Cardinality(CVarWrites) = 2
    /\ cvar.bsp_insertion_point = focused
    /\ BoundIn(node, focused) # NoNode


\* C32: whenever a node holds a Preselect, after any sequence of
\* UseInsertionPoint commands with arbitrary direction tokens, its Direction
\* is one of north, east, south, west, its SpawnLeft is true exactly for west
\* and north, and its Split is Vertical exactly for east and west and
\* Horizontal exactly for north and south.
C32_PreselectWellFormed ==
    \A i \in DOMAIN node :
        (node[i].used /\ node[i].Preselect.Direction # "none") =>
            /\ node[i].Preselect.Direction \in Directions
            /\ PreselectOf(node[i].Preselect, node[i].Preselect.Direction)


\* Focus runs on the active workspace, of mode m, with a tiled window as the
\* insertion point.
FocusStep(m) ==
    /\ CommandStep
    /\ last'.cmd = "focus"
    /\ SpaceType(ActiveSpace) = kCGSSpaceUser
    /\ vs[ActiveSpace].Mode = m
    /\ vs[ActiveSpace].Tree # NoNode
    /\ cvar.bsp_insertion_point \in DOMAIN win
    /\ GetNodeWithId(node, vs[ActiveSpace].Tree, cvar.bsp_insertion_point, m) # NoNode

\* The node of the insertion point's window in the active tree.
InsertionNode ==
    GetNodeWithId(node, vs[ActiveSpace].Tree, cvar.bsp_insertion_point,
                  vs[ActiveSpace].Mode)

\* What the two searches of BSP Focus find for the token dir.
UndirectedFound(dir) ==
    FindWindowUndirected(Cur, ActiveSpace, InsertionNode, dir, WrapMonitor(Cur))
DirectedFound(dir) ==
    {FindClosestWindow(Cur, ActiveSpace, cvar.bsp_insertion_point, dir, WrapMonitor(Cur), o) :
        o \in Orders}

\* The command went on to FocusMonitor: it asked for the active space again.
HandedToMonitor ==
    Cardinality({i \in DOMAIN log' : log'[i].op = "active_space"}) >= 2

\* Nothing but the log and the record of the command changed.
NothingChanged ==
    /\ node' = node
    /\ vs' = vs
    /\ win' = win
    /\ focused' = focused
    /\ cvar' = cvar
    /\ env' = env
    /\ file' = file
    /\ ~aborted'

\* FocusMonitor op, run after the active space was acquired, gives the focus
\* and the active display of the next state.
MonitorTook(op) ==
    \E o \in Orders :
        LET t == FocusMonitorOp(AcquireVirtualSpace(AXLibActiveSpace(Cur), ActiveSpace), op, o)
        IN  focused' = t.focused /\ env' = t.env

\* C33: BSP Focus tries the undirected search first and the directional one
\* second, and hands the focus to the previous or next monitor only when the
\* focus-cycle mode is all, both searches failed and the direction is west or
\* prev (previous monitor) or east or next (next monitor); in the modes
\* monitor and none, and for north, south and biggest, a failed search
\* changes neither the focus nor any state.
C33_FocusSearchOrder ==
    [][FocusStep(Virtual_Space_Bsp) =>
        LET dir == last'.arg
            u == UndirectedFound(dir)
            failed == u = NoWindow /\ DirectedFound(dir) = {NoWindow}
            all == cvar.window_focus_cycle = Window_Focus_Cycle_All
        IN  /\ u # NoWindow => focused' = u /\ ~HandedToMonitor
            /\ (u = NoWindow /\ ~failed) =>
                    focused' \in DirectedFound(dir) \ {NoWindow} /\ ~HandedToMonitor
            /\ HandedToMonitor <=>
                    (all /\ failed /\ dir \in {"west", "prev", "east", "next"})
            /\ (failed /\ all /\ dir \in {"west", "prev"}) => MonitorTook("prev")
            /\ (failed /\ all /\ dir \in {"east", "next"}) => MonitorTook("next")
            /\ (failed /\ ~HandedToMonitor) => NothingChanged]_vars

\* Under the mode all both searches failed towards the east and the focus
\* went to the window on the next display.
C33_Witness ==
    /\ last.cmd = "focus"
    /\ last.arg = "east"
    /\ last.exit = "monitor"
    /\ cvar.window_focus_cycle = Window_Focus_Cycle_All
    /\ env.displays = 2
    /\ env.activeMon = 1
    /\ focused = 3
    /\ Called("focus", 3)


\* FocusMonitor op ran.
MonitorStep(op) == CommandStep /\ last'.cmd = "focus_monitor" /\ last'.arg = op

\* The number of times the command asked for the active space of monitor m,
\* its own first request for the active space left out.
AskedFor(m) ==
    Cardinality({i \in DOMAIN log' :
                    log'[i].op = "active_space" /\ log'[i].a = env.monActive[m]})
        - (IF m = env.activeMon THEN 1 ELSE 0)

\* The monitor m exists and FocusMonitor finds nothing to focus on it: its
\* active space is no user space or shows no window.
NothingOn(m) ==
    /\ m \in Monitors
    /\ m < env.displays
    /\ \/ SpaceType(env.monActive[m]) # kCGSSpaceUser
       \/ \A w \in DOMAIN win : win[w].Space # env.monActive[m]

\* C39: FocusMonitor next wraps to the first monitor only when the current
\* monitor is the last one, FocusMonitor prev wraps to the last monitor only
\* when the current one is the first, and only if the focus-cycle mode is all
\* or monitor_focus_cycle is set; when the adjacent monitor exists but shows
\* no visible window or a non-user space, the command does not wrap and the
\* focus is unchanged.
C39_MonitorWrap ==
    [][/\ MonitorStep("next") =>
            /\ AskedFor(0) > 0 =>
                    env.activeMon = env.displays - 1 /\ FocusCycles(Cur)
            /\ NothingOn(env.activeMon + 1) =>
                    AskedFor(0) = 0 /\ focused' = focused
       /\ MonitorStep("prev") =>
            /\ AskedFor(env.displays - 1) > 0 =>
                    env.activeMon = 0 /\ FocusCycles(Cur)
            /\ NothingOn(env.activeMon - 1) =>
                    AskedFor(env.displays - 1) = 0 /\ focused' = focused]_vars


\* Focus towards the start (back = TRUE) or the end of the leaves, from the
\* first or the last of at least two leaves of the active workspace: the
\* monocle tokens west, prev, east, next, and the BSP tokens prev, next.
AtEnd(back) ==
    /\ \/ /\ FocusStep(Virtual_Space_Monocle)
          /\ last'.arg \in (IF back THEN {"west", "prev"} ELSE {"east", "next"})
          /\ (IF back THEN node[InsertionNode].Left ELSE node[InsertionNode].Right) = NoNode
       \/ /\ FocusStep(Virtual_Space_Bsp)
          /\ last'.arg = (IF back THEN "prev" ELSE "next")
          /\ (IF back THEN GetPrevLeafNode(node, InsertionNode)
                      ELSE GetNextLeafNode(node, InsertionNode)) = NoNode
    /\ focused = cvar.bsp_insertion_point
    /\ GetFirstLeafNode(node, vs[ActiveSpace].Tree) # GetLastLeafNode(node, vs[ActiveSpace].Tree)

\* The window the wrap leads to.
WrapWindow(back) ==
    node[IF back THEN GetLastLeafNode(node, vs[ActiveSpace].Tree)
                 ELSE GetFirstLeafNode(node, vs[ActiveSpace].Tree)].WindowId

\* The wrap policy of the focus-cycle modes.
WrapsOnWorkspace ==
    \/ cvar.window_focus_cycle = Window_Focus_Cycle_Monitor
    \/ cvar.window_focus_cycle = Window_Focus_Cycle_All /\ env.displays = 1

\* The wrap policy of Focus at an end of the leaves.
WrapPolicy(back) ==
    /\ focused' = WrapWindow(back) <=> WrapsOnWorkspace
    /\ cvar.window_focus_cycle = Window_Focus_Cycle_None => focused' = focused
    /\ (cvar.window_focus_cycle = Window_Focus_Cycle_All /\ env.displays > 1) =>
            /\ HandedToMonitor
            /\ focused' \in DOMAIN win
            /\ SpaceMonitor(win[focused'].Space) # env.activeMon

\* Monocle Focus from a node that has the link follows it.
FollowsLink ==
    /\ (last'.arg \in {"west", "prev"} /\ node[InsertionNode].Left # NoNode) =>
            focused' = node[node[InsertionNode].Left].WindowId
    /\ (last'.arg \in {"east", "next"} /\ node[InsertionNode].Right # NoNode) =>
            focused' = node[node[InsertionNode].Right].WindowId

\* C34: the focus wrap policy.  Monocle Focus west or prev from the first
\* list node (east or next from the last) and BSP Focus prev from the first
\* leaf (next from the last) move the focus to the last (first) leaf of the
\* same workspace if and only if the focus-cycle mode is monitor, or it is
\* all and exactly one display is connected; under none the focus does not
\* move, and under all with several displays it goes to the adjacent monitor
\* instead; away from the ends Monocle Focus follows the Left (Right) link.
C34_FocusWrapPolicy ==
    [][/\ AtEnd(TRUE) => WrapPolicy(TRUE)
       /\ AtEnd(FALSE) => WrapPolicy(FALSE)
       /\ FocusStep(Virtual_Space_Monocle) => FollowsLink]_vars


\* Window w has a node in the tree of workspace sp.
BoundOn(n, v, sp, w) == GetNodeWithId(n, v[sp].Tree, w, v[sp].Mode) # NoNode

\* SendWindowToDesktop has moved the focused window, a tileable one, off
\* workspace sp.
SentFrom(sp) ==
    /\ last'.cmd = "send_to_desktop"
    /\ last'.exit \in {"moved", "moved_across"}
    /\ focused \in DOMAIN win
    /\ ~win[focused].Float /\ IsWindowValid(Cur, focused)
    /\ win[focused].Space = sp
    /\ win'[focused].Space # sp

\* The destination desktop is the space its monitor shows.
ShownOnItsMonitor(sp) == env.monActive[SpaceMonitor(sp)] = sp

\* C35: after SendWindowToDesktop has moved a tileable window, the window
\* is bound in the destination workspace's tree if and only if the
\* destination desktop is the active space of its monitor, on another
\* monitor and on the source monitor alike, and the window is no longer
\* bound in the source workspace's tree.
C35_SentWindowBinding ==
    [][\A sp \in Spaces : SentFrom(sp) =>
            /\ BoundOn(node', vs', win'[focused].Space, focused)
                    <=> ShownOnItsMonitor(win'[focused].Space)
            /\ ~BoundOn(node', vs', sp, focused)]_vars


\* The intervals [lo1, lo1 + len1) and [lo2, lo2 + len2) overlap.
Overlap(lo1, len1, lo2, len2) ==
    (IF lo1 > lo2 THEN lo1 ELSE lo2) < (IF lo1 + len1 < lo2 + len2 THEN lo1 + len1 ELSE lo2 + len2)

\* Region b lies in direction dir of region a: they overlap on the other
\* axis and differ in the coordinate of the direction's axis.
LiesInDirection(dir, a, b) ==
    IF dir \in {"north", "south"}
    THEN a.Y # b.Y /\ Overlap(a.X, a.Width, b.X, b.Width)
    ELSE a.X # b.X /\ Overlap(a.Y, a.Height, b.Y, b.Height)

\* The centre of b lies strictly in direction dir of the centre of a.
CentreBeyond(dir, a, b) ==
    IF dir = "north" THEN 2 * b.Y + b.Height < 2 * a.Y + a.Height
    ELSE IF dir = "south" THEN 2 * b.Y + b.Height > 2 * a.Y + a.Height
    ELSE IF dir = "east" THEN 2 * b.X + b.Width > 2 * a.X + a.Width
    ELSE 2 * b.X + b.Width < 2 * a.X + a.Width

\* The leaves of the active tree that pass the tests of the directional
\* search from the insertion point's leaf.
Passing(dir, wrap) ==
    {b \in SeqToSet(LeafSeq(node, vs[ActiveSpace].Tree)) :
        /\ b # InsertionNode
        /\ node[b].WindowId # cvar.bsp_insertion_point
        /\ node[b].WindowId \in DOMAIN win
        /\ win[node[b].WindowId].Space = ActiveSpace
        /\ LiesInDirection(dir, node[InsertionNode].Region, node[b].Region)
        /\ ~wrap => CentreBeyond(dir, node[InsertionNode].Region, node[b].Region)}

DistanceTo(b, dir, wrap) ==
    GetWindowDistance(ActiveSpace, node[InsertionNode].Region, node[b].Region, dir, wrap)

\* C36: the directional search over the visible windows of a BSP workspace
\* reports found only with a window other than the source, bound to a node
\* other than the source's, whose region lies in the direction of the
\* source's region and, when wrap is off, whose centre passes the strict
\* sign test; it reports not found exactly when no window passes these
\* tests, and the window found has the least distance of those that pass.
C36_ClosestWindow ==
    [][(FocusStep(Virtual_Space_Bsp) /\ last'.arg \in Directions) =>
        LET dir == last'.arg
            wrap == WrapMonitor(Cur)
            found == last'.exit = "focused"
            tgt == last'.tgt
        IN  /\ found <=> Passing(dir, wrap) # {}
            /\ found =>
                /\ tgt \in Passing(dir, wrap)
                /\ focused' = node[tgt].WindowId
                /\ \A b \in Passing(dir, wrap) :
                        DistanceTo(tgt, dir, wrap) <= DistanceTo(b, dir, wrap)]_vars

\* The search has found a window beyond the edge of the display: wrap was
\* on, and the window found does not pass the sign test.
C36_Witness ==
    /\ last.cmd = "focus" /\ last.arg \in Directions /\ last.exit = "focused"
    /\ vs[ActiveSpace].Mode = Virtual_Space_Bsp
    /\ last.src # NoNode /\ last.tgt # NoNode
    /\ node[last.tgt].WindowId = focused
    /\ LiesInDirection(last.arg, node[last.src].Region, node[last.tgt].Region)
    /\ ~CentreBeyond(last.arg, node[last.src].Region, node[last.tgt].Region)


\* C37: on every BSP tree, unbalanced trees that mix Horizontal and
\* Vertical splits included, Rotate 270 followed by Rotate 90 and Rotate 90
\* followed by Rotate 270 are the identity: every internal node has its
\* child order, Split and Ratio back, every leaf its WindowId and Ratio.
C37_QuarterTurnsUndone ==
    [][/\ RotateStep("270") =>
            LET back == RotateWindowTree(NextCur, "90").node
            IN  SameTree(back, node, ActiveTree) /\ SameRatio(back, node, ActiveTree)
       /\ RotateStep("90") =>
            LET back == RotateWindowTree(NextCur, "270").node
            IN  SameTree(back, node, ActiveTree) /\ SameRatio(back, node, ActiveTree)]_vars


\* C38: RotateWindowTree with a degrees token other than 90, 180 and 270
\* leaves the BSP tree unchanged: no node's children are exchanged, no Split
\* is toggled and no Ratio changes.
C38_OtherDegreesNoOp ==
    [][\A d \in DegreeTokens \ {"90", "180", "270"} : RotateStep(d) =>
            /\ SameTree(node', node, ActiveTree)
            /\ SameRatio(node', node, ActiveTree)]_vars


\* Rectangle r lies within the bounds b.
Within(r, b) ==
    /\ b.X <= r.X /\ r.X + r.Width <= b.X + b.Width
    /\ b.Y <= r.Y /\ r.Y + r.Height <= b.Y + b.Height

====
